---- MODULE Spec2Model ----
(***************************************************************************)
(* A model of sniff-test: the reachability walker (reachability/reach.rs), *)
(* the consistency check over the reachable functions (check/mod.rs) and   *)
(* the annotation helpers they use (annotations/*.rs).                     *)
(***************************************************************************)
EXTENDS Integers, Sequences, FiniteSets, TLC

(***************************************************************************)
(* Bounds of the analysed programs.                                        *)
(***************************************************************************)
\* total number of call sites in a program given to the walker
MaxSites == 3
\* number of entry points of a program
MaxEntries == 2

\* the locally defined functions (LocalDefId) and one function of a dependency
Funcs == {"main", "foo", "bar"}
NonLocal == {"ext"}
Defs == Funcs \cup NonLocal
\* the order in which entry points are drawn (names are interchangeable)
EntryOrder == <<"main", "foo", "bar">>
\* DefKind of a local function: a free function, an associated function
\* declared in a trait, with a default body (provided) or without (required),
\* or an associated function of an impl of a trait (an override)
Kinds == {"Fn", "TraitProvided", "TraitRequired", "TraitImpl"}

VARIABLES
    pc,         \* position of the run: "walk", "check", "done", "apply"
    kind,       \* Funcs -> Kinds
    body,       \* Funcs -> sequence of callees, one per call terminator
    entry,      \* sequence of entry points handed to the walker
    to_visit,   \* CallGraphVisitor::to_visit
    reachable,  \* CallGraphVisitor::reachable, a map LocalDefId -> record
    expanded,   \* how often visit_body ran on each function
    reqDoc,     \* Defs -> the doc comment of the definition
    external,   \* external_doc_strings: Defs -> requirement string or NoDoc
    callChain,  \* Funcs -> per call site, the call expression and its parents
    axioms,     \* Funcs -> per axiom of the body, the expression and its parents
    checked,    \* the reachable functions the loop of the check has handled
    emitted,    \* the diagnostics emitted so far, in order
    res,        \* the result of check_properly_annotated so far
    arg,        \* the input of a function applied on its own
    out         \* its result

progVars == <<kind, body, entry, reqDoc, external, callChain, axioms>>
walkVars == <<to_visit, reachable, expanded>>
checkVars == <<checked, emitted, res>>
funVars == <<arg, out>>
vars == <<pc, progVars, walkVars, checkVars, funVars>>

----------------------------------------------------------------------------
(* doc comments and their parsing: hocklorp/src/annotations *)

\* A doc comment, by the shape of the section the parser looks for in it:
\*   NoDoc    no doc comment at all
\*   Plain    a doc comment without the section marker
\*   Inline   the marker followed by prose on the same line ("SAFETY: ...")
\*   Empty    the marker alone on its line, no bullets after it
\*   NoColon  the marker and bullets, one of them without a colon
\*   Bullets  the marker and well-formed bullets with the names `names`
Doc(form, names) == [form |-> form, names |-> names]
NoDoc == Doc("NoDoc", <<>>)

NoneR == [tag |-> "None", kind |-> "", names |-> <<>>]
OkR(names) == [tag |-> "Ok", kind |-> "", names |-> names]
ErrR(k) == [tag |-> "Err", kind |-> k, names |-> <<>>]

\* ParseBulletsFromString::parse_bullets_from_string: the marker of both
\* annotation types must be alone on its line
parse_bullets_from_string(doc) ==
    CASE doc.form \in {"Plain", "Inline"} -> ErrR("NoMarkerPattern")
      [] doc.form = "Empty" -> ErrR("EmptyMarker")
      [] doc.form = "NoColon" -> ErrR("NoColon")
      [] doc.form = "Bullets" -> OkR(doc.names)

\* Annotation::parse
parse(doc) ==
    IF doc.form = "NoDoc" THEN ErrR("NoDocString")
    ELSE parse_bullets_from_string(doc)

\* Annotation::try_parse
try_parse(doc) ==
    LET or_none(r) ==
            IF r.tag = "Err" /\ r.kind \in {"NoDocString", "NoMarkerPattern"}
            THEN NoneR
            ELSE r
    IN or_none(parse(doc))

----------------------------------------------------------------------------
(* reachability/reach.rs *)

\* the span of the i-th call terminator of function f
SpanOf(f, i) == <<f, i>>

EmptyCalls == [d \in Defs |-> <<>>]

\* LocallyReachable for an entry point (CallGraphVisitor::new)
EntryRecord(f) == [reach |-> f, through |-> <<>>, calls_to |-> EmptyCalls]

\* a version that records the last call alone
extended_to_last_call(d, def_id, span) ==
    [reach |-> def_id, through |-> <<<<d.reach, span>>>>, calls_to |-> EmptyCalls]

\* LocallyReachable::extended_to
extended_to(d, def_id, span) ==
    [reach |-> def_id,
     through |-> Append(d.through, <<d.reach, span>>),
     calls_to |-> EmptyCalls]

\* LocallyReachable::calls_to
calls_to(d, def_id, span) ==
    [d EXCEPT !.calls_to[def_id] = Append(@, span)]

\* DefId::as_local
as_local(def_id) == def_id \in Funcs

\* a version that takes no function for a trait function
is_no_trait_fn(f) == FALSE

\* kind == AssocFn && parent_kind == Trait
is_trait_fn(f) == kind[f] \in {"TraitProvided", "TraitRequired"}

\* VecDeque::pop_back, the order of a stack
pop_back(q) == [item |-> q[Len(q)], rest |-> SubSeq(q, 1, Len(q) - 1)]

\* VecDeque::pop_front
pop_front(q) == [item |-> Head(q), rest |-> Tail(q)]

\* the test that no visit is recorded, always taken
never_visited(r, f) == FALSE

\* self.reachable.contains_key(&d.reach)
contains_key(r, f) == f \in DOMAIN r

\* BodyVisitor::visit_terminator over the first n call terminators of d.reach:
\* the record with its calls_to filled in, and the items pushed on the back
RECURSIVE visit_terminators(_, _)
visit_terminators(d, n) ==
    IF n = 0 THEN [rec |-> d, pushed |-> <<>>]
    ELSE LET prev == visit_terminators(d, n - 1)
             def_id == body[d.reach][n]
             span == SpanOf(d.reach, n)
         IN [rec |-> calls_to(prev.rec, def_id, span),
             pushed |-> IF as_local(def_id)
                        THEN Append(prev.pushed, extended_to(d, def_id, span))
                        ELSE prev.pushed]

\* a walk that does not look into the body of an annotated function
visit_body_unless_trusted(d) ==
    IF try_parse(reqDoc[d.reach]).tag = "Ok"
    THEN [rec |-> d, pushed |-> <<>>]
    ELSE visit_terminators(d, Len(body[d.reach]))

\* visitor.visit_body(body)
visit_body(d) == visit_terminators(d, Len(body[d.reach]))

\* one turn of the loop: the front item was already visited and is dropped
WalkDrop ==
    /\ pc = "walk"
    /\ to_visit # <<>>
    /\ LET p == pop_front(to_visit) IN
        /\ contains_key(reachable, p.item.reach)
        /\ to_visit' = p.rest
    /\ UNCHANGED <<pc, progVars, reachable, expanded, checkVars, funVars>>

\* one turn of the loop: the front item is a trait function, `continue`
WalkSkipTrait ==
    /\ pc = "walk"
    /\ to_visit # <<>>
    /\ LET p == pop_front(to_visit) IN
        /\ ~contains_key(reachable, p.item.reach)
        /\ is_trait_fn(p.item.reach)
        /\ to_visit' = p.rest
    /\ UNCHANGED <<pc, progVars, reachable, expanded, checkVars, funVars>>

\* one turn of the loop: the body of the front item is visited
WalkExpand ==
    /\ pc = "walk"
    /\ to_visit # <<>>
    /\ LET p == pop_front(to_visit)
           d == p.item
       IN
        /\ ~contains_key(reachable, d.reach)
        /\ ~is_trait_fn(d.reach)
        /\ LET v == visit_body(d) IN
            /\ to_visit' = p.rest \o v.pushed
            /\ reachable' = (d.reach :> v.rec) @@ reachable
        /\ expanded' = [expanded EXCEPT ![d.reach] = @ + 1]
    /\ UNCHANGED <<pc, progVars, checkVars, funVars>>

\* the loop ends: self.reachable.into_values()
WalkFinish ==
    /\ pc = "walk"
    /\ to_visit = <<>>
    /\ pc' = "check"
    /\ UNCHANGED <<progVars, walkVars, checkVars, funVars>>

----------------------------------------------------------------------------
(* annotations/check.rs *)

\* check_consistency: 0 for Ok(()), else the index of the first requirement
\* that no justification names
check_consistency(justifications, for_requirements) ==
    LET missing == { i \in 1..Len(for_requirements) :
                       ~\E j \in 1..Len(justifications) :
                           justifications[j] = for_requirements[i] }
    IN IF missing = {} THEN 0
       ELSE CHOOSE i \in missing : \A k \in missing : i <= k

----------------------------------------------------------------------------
(* check/mod.rs *)

Diag(k, f, through, ax, calls, detail) ==
    [kind |-> k, fn |-> f, through |-> through, axioms |-> ax,
     calls |-> calls, detail |-> detail]

OkV(v) == [tag |-> "Ok", val |-> v, warn |-> <<>>]
ErrV(e) == [tag |-> "Err", val |-> e, warn |-> <<>>]
NoneV == [tag |-> "None", val |-> <<>>, warn |-> <<>>]

\* ParsingError::emit for the doc comment of `at`
parsing_error(at, k) == Diag("parsing_error", at, <<>>, <<>>, <<>>, k)

\* get_requirements: the in-code annotation first, then the external string;
\* a malformed external string gives a warning and None
get_requirements(def_id) ==
    LET from_external(parsed) ==
            IF parsed.tag = "Ok" THEN [tag |-> "Ok", val |-> parsed, warn |-> <<>>]
            ELSE [tag |-> "None", val |-> <<>>,
                  warn |-> <<Diag("warning", def_id, <<>>, <<>>, <<>>,
                                  parsed.kind)>>]
        from_code(in_code) ==
            IF in_code.tag # "None"
            THEN [tag |-> in_code.tag, val |-> in_code, warn |-> <<>>]
            ELSE IF external[def_id].form # "NoDoc"
            THEN from_external(parse_bullets_from_string(external[def_id]))
            ELSE NoneV
    IN from_code(try_parse(reqDoc[def_id]))

\* axioms::find_axioms: every axiom of the body, by its span
find_axioms(f) == [i \in 1..Len(axioms[f]) |-> <<f, "axiom", i>>]

\* reachability/bad.rs is_call_bad
is_call_bad(to_def_id, from_spans) ==
    LET bad(r) ==
            CASE r.tag = "None" -> NoneV
              [] r.tag = "Err" -> ErrV(parsing_error(to_def_id, r.kind))
              [] r.tag = "Ok" -> OkV([def_id |-> to_def_id,
                                      requirements |-> r.names,
                                      from_spans |-> from_spans])
    IN bad(try_parse(reqDoc[to_def_id]))

\* reachability/bad.rs find_bad_calls, the map iterated in the order `order`
RECURSIVE find_bad_calls(_, _)
find_bad_calls(d, order) ==
    LET collect(c, rest) ==
            IF rest.tag = "Err" THEN rest
            ELSE IF c.tag = "None" THEN rest
            ELSE OkV(<<c.val>> \o rest.val)
        next(c) ==
            IF c.tag = "Err" THEN c
            ELSE collect(c, find_bad_calls(d, Tail(order)))
    IN IF order = <<>> THEN OkV(<<>>)
       ELSE next(is_call_bad(Head(order), d.calls_to[Head(order)]))

\* check/expr.rs find_expr_for_call: the call expression with that span
find_expr_for_call(in_fn, call_span) == callChain[in_fn][call_span[2]][1]

\* the loop of only_unjustified_callsites over the spans of one callee
RECURSIVE new_spans(_, _, _, _)
new_spans(in_fn, to_def_id, requirements, spans) ==
    LET push(call_span, justs, rest) ==
            IF rest.tag = "Err" THEN rest
            ELSE IF justs.tag = "None"
            THEN OkV(<<call_span>> \o rest.val)
            ELSE rest
        consistent(call_span, justs, missing) ==
            IF missing # 0
            THEN ErrV(Diag("no_justification", to_def_id, <<>>, <<>>, <<>>,
                           requirements[missing]))
            ELSE push(call_span, justs,
                      new_spans(in_fn, to_def_id, requirements, Tail(spans)))
        match(call_span, justs) ==
            IF justs.tag = "Err"
            THEN ErrV(parsing_error(call_span, justs.kind))
            ELSE consistent(call_span, justs,
                            IF justs.tag = "Ok"
                            THEN check_consistency(justs.names, requirements)
                            ELSE 0)
    IN IF spans = <<>> THEN OkV(<<>>)
       ELSE match(Head(spans),
                  try_parse(find_expr_for_call(in_fn, Head(spans)).doc))

\* only_unjustified_callsites
only_unjustified_callsites(in_fn, calls) ==
    LET replaced(spans) ==
            IF spans.tag = "Err" THEN spans
            ELSE OkV([calls EXCEPT !.from_spans = spans.val])
        with(requirements) ==
            IF requirements.tag = "Err"
            THEN ErrV(parsing_error(calls.def_id, requirements.kind))
            ELSE replaced(new_spans(in_fn, calls.def_id, requirements.names,
                                    calls.from_spans))
    IN with(parse(reqDoc[calls.def_id]))

\* .map(only_unjustified_callsites(..)).filter(..).collect::<Result<..>>()
RECURSIVE unjustified_calls(_, _)
unjustified_calls(in_fn, bad) ==
    LET collect(c, rest) ==
            IF rest.tag = "Err" THEN rest
            ELSE IF c.val.from_spans = <<>> THEN rest
            ELSE OkV(<<c.val>> \o rest.val)
        next(c) ==
            IF c.tag = "Err" THEN c
            ELSE collect(c, unjustified_calls(in_fn, Tail(bad)))
    IN IF bad = <<>> THEN OkV(<<>>)
       ELSE next(only_unjustified_callsites(in_fn, Head(bad)))

\* needs_annotation: the diagnostic for one function
needs_annotation(d, ax, bad_calls) ==
    Diag("needs_annotation", d.reach, d.through, ax,
         [i \in 1..Len(bad_calls) |->
            [def_id |-> bad_calls[i].def_id,
             from_spans |-> bad_calls[i].from_spans]],
         "")

\* the sequences that list the elements of S once each
Orders(S) == { o \in [1..Cardinality(S) -> S] :
                 \A i, j \in 1..Cardinality(S) : o[i] = o[j] => i = j }

\* the callees in d.calls_to (a key exists once a span was pushed)
Callees(d) == { c \in Defs : d.calls_to[c] # <<>> }

\* one turn of the loop of check_properly_annotated for the function f:
\*   abort  the `?` returned from the whole check with the error `diag`
\*   report needs_annotation was emitted
check_one(f, order) ==
    LET unjustified(bad) ==
            IF bad.tag = "Err" THEN bad ELSE unjustified_calls(f, bad.val)
        turn(d, ax, my_requirements, bad_calls) ==
            IF bad_calls.tag = "Err"
            THEN [abort |-> TRUE, report |-> FALSE,
                  diags |-> my_requirements.warn \o <<bad_calls.val>>]
            ELSE IF my_requirements.tag = "None"
                    /\ (ax # <<>> \/ bad_calls.val # <<>>)
            THEN [abort |-> FALSE, report |-> TRUE,
                  diags |-> my_requirements.warn
                            \o <<needs_annotation(d, ax, bad_calls.val)>>]
            ELSE [abort |-> FALSE, report |-> FALSE,
                  diags |-> my_requirements.warn]
    IN turn(reachable[f], find_axioms(f), get_requirements(f),
            unjustified(find_bad_calls(reachable[f], order)))

\* a turn of the loop ends the check with an error: `?`
CheckAbort ==
    /\ pc = "check"
    /\ \E f \in (DOMAIN reachable) \ checked :
       \E order \in Orders(Callees(reachable[f])) :
         LET turn(c) ==
               /\ c.abort
               /\ emitted' = emitted \o c.diags
               /\ checked' = checked \cup {f}
         IN turn(check_one(f, order))
    /\ res' = "Err"
    /\ pc' = "done"
    /\ UNCHANGED <<progVars, walkVars, funVars>>

\* a turn of the loop reports the function: res = Err(needs_annotation(..))
CheckReport ==
    /\ pc = "check"
    /\ \E f \in (DOMAIN reachable) \ checked :
       \E order \in Orders(Callees(reachable[f])) :
         LET turn(c) ==
               /\ c.report
               /\ emitted' = emitted \o c.diags
               /\ checked' = checked \cup {f}
         IN turn(check_one(f, order))
    /\ res' = "Err"
    /\ UNCHANGED <<pc, progVars, walkVars, funVars>>

\* a turn of the loop finds nothing to report
CheckPass ==
    /\ pc = "check"
    /\ \E f \in (DOMAIN reachable) \ checked :
       \E order \in Orders(Callees(reachable[f])) :
         LET turn(c) ==
               /\ ~c.abort /\ ~c.report
               /\ emitted' = emitted \o c.diags
               /\ checked' = checked \cup {f}
         IN turn(check_one(f, order))
    /\ UNCHANGED <<pc, res, progVars, walkVars, funVars>>

\* the loop is over: `res` is returned
CheckFinish ==
    /\ pc = "check"
    /\ checked = DOMAIN reachable
    /\ pc' = "done"
    /\ UNCHANGED <<progVars, walkVars, checkVars, funVars>>

----------------------------------------------------------------------------
(* the programs given to the walker *)

\* the bodies of at most n call sites in total, callers taken in the order fs
RECURSIVE Bodies(_, _)
Bodies(fs, n) ==
    IF fs = <<>> THEN {<<>>}
    ELSE UNION { { <<s>> \o rest : rest \in Bodies(Tail(fs), n - l),
                                   s \in [1..l -> Defs] }
                 : l \in 0..n }

FuncOrder == EntryOrder

BodyMaps(n) ==
    { [f \in Funcs |-> b[CHOOSE i \in 1..Len(FuncOrder) : FuncOrder[i] = f]]
      : b \in Bodies(FuncOrder, n) }

\* at most one function of the program is declared in a trait
KindMaps ==
    { [f \in Funcs |-> "Fn"] } \cup
    { [f \in Funcs |-> IF f = t THEN k ELSE "Fn"]
      : t \in Funcs, k \in {"TraitProvided", "TraitRequired"} }

\* a required trait method has no body
WellFormed(k, b) == \A f \in Funcs : k[f] = "TraitRequired" => b[f] = <<>>

Entries == { SubSeq(EntryOrder, 1, n) : n \in 1..MaxEntries }

\* a node of the HIR: an expression, a block, a statement or an item
Node(k, doc) == [node |-> k, doc |-> doc]

\* a call or an axiom without any doc comment up to the function item
PlainCall == <<Node("Expr", NoDoc), Node("Block", NoDoc), Node("Item", NoDoc)>>

Req(names) == Doc("Bullets", names)

\* no function is annotated, or foo is
WalkDocs ==
    { [d \in Defs |-> NoDoc],
      [d \in Defs |-> IF d = "foo" THEN Req(<<"nn">>) ELSE NoDoc] }

InitWalk ==
    /\ pc = "walk"
    /\ kind \in KindMaps
    /\ body \in BodyMaps(MaxSites)
    /\ WellFormed(kind, body)
    /\ entry \in Entries
    /\ to_visit = [i \in 1..Len(entry) |-> EntryRecord(entry[i])]
    /\ reachable = <<>>
    /\ expanded = [f \in Funcs |-> 0]
    /\ reqDoc \in WalkDocs
    /\ external = [d \in Defs |-> NoDoc]
    /\ callChain = [f \in Funcs |-> [i \in 1..Len(body[f]) |-> PlainCall]]
    /\ axioms = [f \in Funcs |-> <<>>]
    /\ checked = {}
    /\ emitted = <<>>
    /\ res = "Ok"
    /\ arg = <<>>
    /\ out = <<>>

----------------------------------------------------------------------------
(* the programs given to the whole check *)

Body(m, f, b) == [g \in Funcs |-> CASE g = "main" -> m [] g = "foo" -> f [] OTHER -> b]

\* the call graphs: a chain, two calls of one callee, two callees, a call
\* into a dependency, no call at all
Shapes ==
    { Body(<<"foo">>, <<"bar">>, <<>>),
      Body(<<"foo", "foo">>, <<>>, <<>>),
      Body(<<"foo", "bar">>, <<>>, <<>>),
      Body(<<"ext">>, <<>>, <<>>),
      Body(<<>>, <<>>, <<>>) }

\* the doc comment of a function definition
OwnDocs == { NoDoc, Req(<<"nn">>), Doc("Empty", <<>>) }
CalleeDocs == { NoDoc, Req(<<"nn">>) }

\* a call site: the call expression, the enclosing block, the function item
CallChains ==
    { <<Node("Expr", d), Node("Block", NoDoc), Node("Item", NoDoc)>>
        : d \in { NoDoc, Doc("Bullets", <<"nn">>), Doc("Bullets", <<"zz">>),
                  Doc("Empty", <<>>) } }
    \cup { <<Node("Expr", NoDoc), Node("Block", Doc("Bullets", <<"nn">>)),
             Node("Item", NoDoc)>> }

\* the axioms of a body: none, one without a justification, one in an unsafe
\* block that carries a justification
AxiomLists ==
    { <<>>, <<PlainCall>>,
      << <<Node("Expr", NoDoc), Node("Block", Doc("Bullets", <<"nn">>)),
           Node("Item", NoDoc)>> >> }

\* the doc comments of the four definitions
ReqDocs ==
    { [d \in Defs |-> CASE d = "main" -> m [] d = "foo" -> f
                        [] d = "bar" -> b [] OTHER -> e]
      : m \in OwnDocs, f \in OwnDocs, b \in CalleeDocs, e \in CalleeDocs }

\* the requirement strings of the external file: one for main at most
Externals ==
    { [d \in Defs |-> IF d = "main" THEN x ELSE NoDoc]
      : x \in { NoDoc, Req(<<"nn">>), Doc("Empty", <<>>) } }

\* the call sites of the bodies b: the sites of main take c[1] and c[2], the
\* sites of the other functions c[2]
ChainsOf(b, c) ==
    [f \in Funcs |-> [i \in 1..Len(b[f]) |-> IF f = "main" THEN c[i] ELSE c[2]]]

AxiomMaps ==
    { [f \in Funcs |-> CASE f = "main" -> m [] f = "bar" -> b [] OTHER -> <<>>]
      : m \in AxiomLists, b \in {<<>>, <<PlainCall>>} }

\* a program of free functions: an external string stands for a function
\* without a doc comment only
FreeProgram ==
    /\ kind = [f \in Funcs |-> "Fn"]
    /\ reqDoc \in ReqDocs
    /\ external \in Externals
    /\ external["main"] # NoDoc => reqDoc["main"] = NoDoc
    /\ \E c \in [1..2 -> CallChains] : callChain = ChainsOf(body, c)

\* a program whose function bar is a provided method of a trait: it carries
\* no annotation at all
TraitProgram ==
    /\ kind = [f \in Funcs |-> IF f = "bar" THEN "TraitProvided" ELSE "Fn"]
    /\ reqDoc = [d \in Defs |-> NoDoc]
    /\ external = [d \in Defs |-> NoDoc]
    /\ callChain = ChainsOf(body, <<PlainCall, PlainCall>>)

\* a program with a trait: bar is the declaration of a method, without a
\* body, and foo the override of an impl; a call never names the override
\* (the callee of a method call is the method of the trait)
OverrideProgram ==
    /\ kind = [f \in Funcs |-> CASE f = "foo" -> "TraitImpl"
                                  [] f = "bar" -> "TraitRequired"
                                  [] OTHER -> "Fn"]
    /\ \A f \in Funcs : \A i \in 1..Len(body[f]) : body[f][i] # "foo"
    /\ reqDoc \in { q \in ReqDocs : q["main"] = NoDoc /\ q["ext"] = NoDoc }
    /\ external = [d \in Defs |-> NoDoc]
    /\ callChain = ChainsOf(body, <<PlainCall, PlainCall>>)

\* the method of the trait that the override f implements
trait_method(f) == CHOOSE t \in Funcs : is_trait_fn(t)

Init ==
    /\ pc = "walk"
    /\ body \in Shapes
    /\ entry \in Entries
    /\ axioms \in AxiomMaps
    /\ (FreeProgram \/ TraitProgram \/ OverrideProgram)
    /\ to_visit = [i \in 1..Len(entry) |-> EntryRecord(entry[i])]
    /\ reachable = <<>>
    /\ expanded = [f \in Funcs |-> 0]
    /\ checked = {}
    /\ emitted = <<>>
    /\ res = "Ok"
    /\ arg = <<>>
    /\ out = <<>>

Next ==
    \/ WalkDrop \/ WalkSkipTrait \/ WalkExpand \/ WalkFinish
    \/ CheckAbort \/ CheckReport \/ CheckPass \/ CheckFinish

Spec == Init /\ [][Next]_vars

NextWalk == WalkDrop \/ WalkSkipTrait \/ WalkExpand \/ WalkFinish

SpecWalk == InitWalk /\ [][NextWalk]_vars

SpecWalkFair == InitWalk /\ [][NextWalk]_vars /\ WF_vars(NextWalk)

----------------------------------------------------------------------------
(* the call graph, computed apart from the walk *)

Calls(f, g) == \E i \in 1..Len(body[f]) : body[f][i] = g

EntrySet == { entry[i] : i \in 1..Len(entry) }

\* the functions of A reached from the entry points in at most n calls that
\* stay inside A
RECURSIVE Within(_, _)
Within(A, n) ==
    IF n = 0 THEN EntrySet \cap A
    ELSE LET S == Within(A, n - 1) IN
         S \cup { g \in A : \E f \in S : Calls(f, g) }

ReachIn(A) == Within(A, Cardinality(Funcs))

WithBody == { f \in Funcs : kind[f] # "TraitRequired" }
FreeFns == { f \in Funcs : ~is_trait_fn(f) }

\* the least number of calls from an entry point to f, inside A
Dist(A, f) == CHOOSE n \in 0..Cardinality(Funcs) :
                 /\ f \in Within(A, n)
                 /\ \A m \in 0..Cardinality(Funcs) : f \in Within(A, m) => n <= m

Trusted(f) == try_parse(reqDoc[f]).tag = "Ok"

----------------------------------------------------------------------------
(* the walker: C3, C4, C5 *)

C4_TerminatesOnce ==
    /\ <>(pc = "check")
    /\ [](\A f \in Funcs : expanded[f] <= 1)
    /\ [](pc = "check" =>
            \A f \in DOMAIN reachable :
                expanded[f] = 1 /\ reachable[f].reach = f)

\* main and foo call each other, foo calls itself, and the walk has ended
C4_Witness ==
    /\ pc = "check"
    /\ Calls("main", "foo") /\ Calls("foo", "main") /\ Calls("foo", "foo")
    /\ {"main", "foo"} \subseteq DOMAIN reachable

\* C5: the path recorded for a function has as many edges as the shortest
\* chain of calls from an entry point to it
C5_ShortestPath ==
    \A f \in DOMAIN reachable :
        Len(reachable[f].through) = Dist(FreeFns, f)

\* bar is called by main after foo and by foo: the shorter path was recorded
C5_Witness ==
    /\ pc = "check"
    /\ entry = <<"main">>
    /\ body["main"] = <<"foo", "bar">>
    /\ body["foo"] = <<"bar">>
    /\ FreeFns = Funcs
    /\ Len(reachable["bar"].through) = 1

----------------------------------------------------------------------------
(* the checker: C1, C2, C7 *)

\* the position of the enclosing function or impl item in a chain of nodes
Boundary(chain) ==
    CHOOSE i \in 1..Len(chain) :
        /\ chain[i].node \in {"Item", "ImplItem"}
        /\ \A j \in 1..(i - 1) : chain[j].node \notin {"Item", "ImplItem"}

\* the nodes below the boundary that carry a justification section
Justifying(chain) ==
    { i \in 1..(Boundary(chain) - 1) : try_parse(chain[i].doc).tag = "Ok" }

HasJustification(chain) == Justifying(chain) # {}

\* the innermost justification in scope names every requirement
Covered(chain, requirements) ==
    /\ HasJustification(chain)
    /\ LET i == CHOOSE k \in Justifying(chain) : \A j \in Justifying(chain) : k <= j
       IN \A r \in 1..Len(requirements) :
            \E b \in 1..Len(try_parse(chain[i].doc).names) :
                try_parse(chain[i].doc).names[b] = requirements[r]

Untrusted(f) == get_requirements(f).tag = "None"

Obligated(c) == Trusted(c)

UnresolvedAxioms(f) ==
    { <<f, "axiom", i>> : i \in { k \in 1..Len(axioms[f]) :
                                    ~HasJustification(axioms[f][k]) } }

IsUnresolved(f, c, span) ==
    ~Covered(callChain[f][span[2]], try_parse(reqDoc[c]).names)

UnresolvedCalls(f) ==
    { [def_id |-> c,
       from_spans |-> SelectSeq(reachable[f].calls_to[c],
                                LAMBDA s : IsUnresolved(f, c, s))]
      : c \in { x \in Defs : /\ Obligated(x)
                             /\ \E i \in 1..Len(reachable[f].calls_to[x]) :
                                  IsUnresolved(f, x, reachable[f].calls_to[x][i]) } }

DiagsFor(f) ==
    { k \in 1..Len(emitted) :
        emitted[k].kind = "needs_annotation" /\ emitted[k].fn = f }

SeqRange(q) == { q[i] : i \in 1..Len(q) }

\* a hard error (a malformed section, a requirement no justification names)
\* was emitted
HardError ==
    \E k \in 1..Len(emitted) :
        emitted[k].kind \in {"parsing_error", "no_justification"}

\* every doc comment on the call expressions of f parses
WellFormedCalls(f) ==
    \A i \in 1..Len(callChain[f]) : try_parse(callChain[f][i][1].doc).tag # "Err"

\* C1: when the check has ended without a hard error, an untrusted reachable
\* function has one diagnostic if it has an unresolved axiom or an unresolved
\* call span and none otherwise; the diagnostic carries the path of the
\* function, its unresolved axioms and its unresolved calls grouped by callee
C1_OneDiagnosticPerFunction ==
    (pc = "done" /\ ~HardError) =>
      \A f \in DOMAIN reachable : Untrusted(f) =>
        IF UnresolvedAxioms(f) = {} /\ UnresolvedCalls(f) = {}
        THEN DiagsFor(f) = {}
        ELSE /\ Cardinality(DiagsFor(f)) = 1
             /\ \A k \in DiagsFor(f) :
                  /\ emitted[k].through = reachable[f].through
                  /\ SeqRange(emitted[k].axioms) = UnresolvedAxioms(f)
                  /\ SeqRange(emitted[k].calls) = UnresolvedCalls(f)

\* C2: the turn of a trusted function whose call sites carry no malformed doc
\* comment emits nothing, leaves the result of the check as it was and does
\* not end the check
C2_TrustedBodyNotInspected ==
    [][\A f \in Funcs :
         (f \in checked' /\ f \notin checked /\ Trusted(f) /\ WellFormedCalls(f)) =>
            (emitted' = emitted /\ res' = res /\ pc' = pc)]_vars

\* C7: when the check has ended without a hard error, an axiom of an
\* untrusted reachable function is in the diagnostic of the function exactly
\* if no justification is in scope for it, and a function without unresolved
\* axiom or call has no diagnostic
C7_AxiomResolvedByJustification ==
    (pc = "done" /\ ~HardError) =>
      \A f \in DOMAIN reachable : Untrusted(f) =>
        /\ \A i \in 1..Len(axioms[f]) :
             (\E k \in DiagsFor(f) : <<f, "axiom", i>> \in SeqRange(emitted[k].axioms))
               <=> ~HasJustification(axioms[f][i])
        /\ (UnresolvedAxioms(f) = {} /\ UnresolvedCalls(f) = {})
             => DiagsFor(f) = {}

----------------------------------------------------------------------------
(* the checker: C11, C12, C13, C14, C16 *)

\* the overrides of a trait method among the functions handed to the check
Overrides == { f \in DOMAIN reachable : kind[f] = "TraitImpl" }

\* a trait-obligation-mismatch error that names the override and the trait
TraitMismatch(f) ==
    \E k \in 1..Len(emitted) :
        /\ emitted[k].kind = "trait_obligation_mismatch"
        /\ emitted[k].fn = f
        /\ emitted[k].detail = trait_method(f)

\* every requirement of the override is a requirement of the declaration
ImpliedByTrait(f) ==
    \A i \in 1..Len(try_parse(reqDoc[f]).names) :
        \E j \in 1..Len(try_parse(reqDoc[trait_method(f)]).names) :
            try_parse(reqDoc[trait_method(f)]).names[j]
                = try_parse(reqDoc[f]).names[i]

\* C11: when the check has ended, every checked override whose trait declares
\* the method without a requirement section and whose own section is not
\* empty has a trait-obligation-mismatch error naming both, and the result is
\* a failure; an override whose requirements the declaration implies has none
C11_TraitObligationMismatch ==
    pc = "done" =>
      \A f \in Overrides \cap checked :
        /\ ( /\ try_parse(reqDoc[trait_method(f)]).tag = "None"
             /\ try_parse(reqDoc[f]).tag = "Ok"
             /\ try_parse(reqDoc[f]).names # <<>> )
              => (TraitMismatch(f) /\ res = "Err")
        /\ ImpliedByTrait(f) => ~TraitMismatch(f)

\* the error kinds that stand for "not annotated"
Recoverable == {"NoDocString", "NoMarkerPattern"}

\* the doc comment of f has a requirement section that does not parse
HardParseError(f) ==
    parse(reqDoc[f]).tag = "Err" /\ parse(reqDoc[f]).kind \notin Recoverable

\* the parse error of the doc comment of f was emitted
Surfaced(f) ==
    \E k \in 1..Len(emitted) :
        /\ emitted[k].kind = "parsing_error"
        /\ emitted[k].fn = f
        /\ emitted[k].detail = parse(reqDoc[f]).kind

ErrorKinds == {"parsing_error", "no_justification", "needs_annotation",
               "trait_obligation_mismatch"}

\* C12: when the check has ended, the hard parse error of the requirement
\* section of every checked function (taken with well-formed call sites, so
\* that no other error ends its turn) was emitted as a diagnostic and the
\* result is a failure
C12_HardErrorSurfaced ==
    pc = "done" =>
      \A f \in checked :
        (HardParseError(f) /\ WellFormedCalls(f)) => (Surfaced(f) /\ res = "Err")

\* C13: when the check has ended, every reachable function was checked, and
\* the result is a failure exactly if an error was emitted
C13_ContinuesAfterError ==
    pc = "done" =>
      /\ checked = DOMAIN reachable
      /\ res = "Err" <=> \E k \in 1..Len(emitted) : emitted[k].kind \in ErrorKinds

\* C14: when the check has ended, a reachable function that its own turn
\* reports (whatever the order of its callees) has its diagnostic, whichever
\* functions were checked before it
C14_DiagnosticsIndependentOfOrder ==
    pc = "done" =>
      \A f \in DOMAIN reachable :
        (\A o \in Orders(Callees(reachable[f])) : check_one(f, o).report)
          => DiagsFor(f) # {}

\* C16: for every checked function, a recoverable outcome of the parse of its
\* doc comment is never emitted, and a hard error is emitted and does not
\* leave the function counted as annotated or as not annotated
C16_TwoWayClassification ==
    \A f \in checked :
      /\ (parse(reqDoc[f]).tag = "Err" /\ parse(reqDoc[f]).kind \in Recoverable)
           => /\ try_parse(reqDoc[f]).tag = "None"
              /\ \A k \in 1..Len(emitted) :
                   emitted[k].fn = f => emitted[k].detail \notin Recoverable
      /\ HardParseError(f)
           => /\ try_parse(reqDoc[f]).tag = "Err"
              /\ Surfaced(f)

----------------------------------------------------------------------------
(* strings as sequences of characters *)

UpperCase ==
    << "A", "B", "C", "D", "E", "F", "G", "H", "I", "J", "K", "L", "M", "N",
       "O", "P", "Q", "R", "S", "T", "U", "V", "W", "X", "Y", "Z" >>
LowerCase ==
    << "a", "b", "c", "d", "e", "f", "g", "h", "i", "j", "k", "l", "m", "n",
       "o", "p", "q", "r", "s", "t", "u", "v", "w", "x", "y", "z" >>

\* char::to_lowercase on the letters of the alphabet
to_lowercase_char(c) ==
    IF \E i \in 1..Len(UpperCase) : UpperCase[i] = c
    THEN LowerCase[CHOOSE i \in 1..Len(UpperCase) : UpperCase[i] = c]
    ELSE c

\* str::to_lowercase
to_lowercase(s) == [i \in 1..Len(s) |-> to_lowercase_char(s[i])]

\* char::is_whitespace, the class \s
is_whitespace(c) == c \in {" ", "\n", "\t"}

is_uppercase(c) == \E i \in 1..Len(UpperCase) : UpperCase[i] = c

\* str::contains
contains(haystack, needle) ==
    \E i \in 1..(Len(haystack) - Len(needle) + 1) :
        SubSeq(haystack, i, i + Len(needle) - 1) = needle

RECURSIVE trim_start(_)
trim_start(s) ==
    IF s # <<>> /\ is_whitespace(Head(s)) THEN trim_start(Tail(s)) ELSE s

RECURSIVE trim_end(_)
trim_end(s) ==
    IF s # <<>> /\ is_whitespace(s[Len(s)])
    THEN trim_end(SubSeq(s, 1, Len(s) - 1)) ELSE s

\* str::trim
trim(s) == trim_end(trim_start(s))

\* the first position of s that holds a character of cs, 0 if there is none
position(s, cs) ==
    IF \E i \in 1..Len(s) : s[i] \in cs
    THEN CHOOSE i \in 1..Len(s) :
            s[i] \in cs /\ \A j \in 1..(i - 1) : s[j] \notin cs
    ELSE 0

\* str::split_once
split_once(s, c) ==
    LET i == position(s, {c}) IN
    IF i = 0 THEN [found |-> FALSE, left |-> <<>>, right |-> <<>>]
    ELSE [found |-> TRUE, left |-> SubSeq(s, 1, i - 1),
          right |-> SubSeq(s, i + 1, Len(s))]

\* str::split on a set of characters
RECURSIVE split(_, _)
split(s, cs) ==
    LET i == position(s, cs) IN
    IF i = 0 THEN <<s>>
    ELSE <<SubSeq(s, 1, i - 1)>> \o split(SubSeq(s, i + 1, Len(s)), cs)

\* (?m)^ : the position is the start of a line
line_start(t, i) == i = 1 \/ t[i - 1] = "\n"

\* the first position from i on that holds no whitespace: \s* and \s+
RECURSIVE skip_whitespace(_, _)
skip_whitespace(t, i) ==
    IF i <= Len(t) /\ is_whitespace(t[i]) THEN skip_whitespace(t, i + 1) ELSE i

RECURSIVE skip_hashes(_, _)
skip_hashes(t, i) ==
    IF i <= Len(t) /\ t[i] = "#" THEN skip_hashes(t, i + 1) ELSE i

\* None, or Some of a doc string
NoText == [some |-> FALSE, str |-> <<>>]
Text(s) == [some |-> TRUE, str |-> s]

----------------------------------------------------------------------------
(* properties/safety.rs, annotations/new_parsing.rs, annotations/mod.rs *)

Safety_ == <<"S", "a", "f", "e", "t", "y">>
SAFETY_ == <<"S", "A", "F", "E", "T", "Y">>

Keywords == {Safety_, SAFETY_}

\* (\n|^)(\s*) at the position s: the position after the line break
after_line_break(t, s) ==
    IF s = 1 THEN 1 ELSE IF t[s] = "\n" THEN s + 1 ELSE 0

\* fn_def_regex (\n|^)(\s*)[#]+ (Safety|SAFETY)(\n|$) matched at s:
\* the position after the match, 0 if there is no match at s
fn_def_regex_at(t, s) ==
    LET p == after_line_break(t, s)
        j == skip_whitespace(t, p)
        k == skip_hashes(t, j)
        e == k + Len(Safety_) + 1
    IN IF /\ p # 0
          /\ k > j
          /\ k <= Len(t) /\ t[k] = " "
          /\ e - 1 <= Len(t)
          /\ SubSeq(t, k + 1, e - 1) \in Keywords
          /\ (e > Len(t) \/ t[e] = "\n")
       THEN IF e > Len(t) THEN e ELSE e + 1
       ELSE 0

\* callsite_regex (\n|^)(\s*)(Safety|SAFETY): matched at s
callsite_regex_at(t, s) ==
    LET p == after_line_break(t, s)
        j == skip_whitespace(t, p)
        e == j + Len(Safety_)
    IN IF /\ p # 0
          /\ e <= Len(t)
          /\ SubSeq(t, j, e - 1) \in Keywords
          /\ t[e] = ":"
       THEN e + 1
       ELSE 0

\* Regex::find of the two markers: the leftmost match
fn_def_regex(t) ==
    IF \E s \in 1..Len(t) : fn_def_regex_at(t, s) # 0
    THEN LET s == CHOOSE s \in 1..Len(t) :
                    /\ fn_def_regex_at(t, s) # 0
                    /\ \A r \in 1..(s - 1) : fn_def_regex_at(t, r) = 0
         IN [found |-> TRUE, start |-> s, end |-> fn_def_regex_at(t, s)]
    ELSE [found |-> FALSE, start |-> 0, end |-> 0]

callsite_regex(t) ==
    IF \E s \in 1..Len(t) : callsite_regex_at(t, s) # 0
    THEN LET s == CHOOSE s \in 1..Len(t) :
                    /\ callsite_regex_at(t, s) # 0
                    /\ \A r \in 1..(s - 1) : callsite_regex_at(t, r) = 0
         IN [found |-> TRUE, start |-> s, end |-> callsite_regex_at(t, s)]
    ELSE [found |-> FALSE, start |-> 0, end |-> 0]

\* (?m)^\s*#\s+[A-Z] matched at s: the start of the next section
next_section_at(t, s) ==
    LET j == skip_whitespace(t, s)
        k == skip_whitespace(t, j + 1)
    IN /\ line_start(t, s)
       /\ j <= Len(t) /\ t[j] = "#"
       /\ k > j + 1
       /\ k <= Len(t) /\ is_uppercase(t[k])

\* the text of the section: up to the next section or the end
section_text(rest) ==
    IF \E s \in 1..Len(rest) : next_section_at(rest, s)
    THEN LET s == CHOOSE s \in 1..Len(rest) :
                    /\ next_section_at(rest, s)
                    /\ \A r \in 1..(s - 1) : ~next_section_at(rest, r)
         IN SubSeq(rest, 1, s - 1)
    ELSE rest

\* bullet_regex (?m)^\s*[-*]\s+ matched at s: the position after the match,
\* 0 if there is no match at s
bullet_regex_at(t, s) ==
    LET j == skip_whitespace(t, s) IN
    IF /\ line_start(t, s)
       /\ j <= Len(t) /\ t[j] \in {"-", "*"}
       /\ j + 1 <= Len(t) /\ is_whitespace(t[j + 1])
    THEN skip_whitespace(t, j + 1)
    ELSE 0

\* bullet_regex.find_iter(text) from the position pos on
RECURSIVE find_iter(_, _)
find_iter(t, pos) ==
    IF pos > Len(t) THEN <<>>
    ELSE LET e == bullet_regex_at(t, pos) IN
         IF e # 0 THEN <<[start |-> pos, end |-> e]>> \o find_iter(t, e)
         ELSE find_iter(t, pos + 1)

SomeC(conditions) == [tag |-> "Some", conditions |-> conditions, err |-> ""]
NoneC == [tag |-> "None", conditions |-> <<>>, err |-> ""]
ErrC(msg) == [tag |-> "Err", conditions |-> <<>>, err |-> msg]

\* one turn of the loop of try_parse_conditions
parse_bullet(bullet_content) ==
    LET sp == split_once(bullet_content, ":")
        name == trim(sp.left)
        description == trim(sp.right)
    IN IF ~sp.found THEN ErrC("bullet item missing colon separator")
       ELSE IF name = <<>> THEN ErrC("bullet item has empty name")
       ELSE IF \E i \in 1..Len(name) : is_whitespace(name[i])
       THEN ErrC("bullet item name must be a single word")
       ELSE IF description = <<>> THEN ErrC("bullet item has empty description")
       ELSE SomeC(<<[name |-> name, description |-> description]>>)

\* the loop of try_parse_conditions from the match i on
RECURSIVE parse_matches(_, _, _)
parse_matches(text, matches, i) ==
    IF i > Len(matches) THEN SomeC(<<>>)
    ELSE LET start == matches[i].end
             end == IF i + 1 <= Len(matches) THEN matches[i + 1].start
                    ELSE Len(text) + 1
             b == parse_bullet(trim(SubSeq(text, start, end - 1)))
         IN IF b.tag = "Err" THEN b
            ELSE LET rest == parse_matches(text, matches, i + 1) IN
                 IF rest.tag = "Err" THEN rest
                 ELSE SomeC(b.conditions \o rest.conditions)

\* try_parse_conditions: Ok(Some(conditions)), Ok(None) or Err(message)
try_parse_conditions(text) ==
    LET matches == find_iter(text, 1) IN
    IF matches = <<>> THEN NoneC
    ELSE LET c == parse_matches(text, matches, 1) IN
         IF c.tag = "Some" /\ c.conditions = <<>> THEN NoneC ELSE c

Violation(tag, conditions, msgs) ==
    [tag |-> tag, conditions |-> conditions, emitted |-> msgs]

Unconditional == Violation("Unconditional", <<>>, <<>>)
Conditionally(conditions) == Violation("Conditionally", conditions, <<>>)
Never == Violation("Never", <<>>, <<>>)

\* a version that takes every undetermined section for a general violation
violation_from_text_lenient(is_local, text, args) ==
    LET c == try_parse_conditions(text) IN
    IF c.tag = "Some" THEN Conditionally(c.conditions) ELSE Unconditional

\* violation_from_text; the tag "Panic" stands for panic!("see above error")
\* after the error was emitted
violation_from_text(is_local, text, args) ==
    LET c == try_parse_conditions(text)
        strict == (is_local \/ args.check_dependencies) /\ args.fine_grained
    IN CASE c.tag = "Some" -> Conditionally(c.conditions)
         [] c.tag = "None" ->
              IF strict
              THEN Violation("Panic", <<>>,
                     <<"couldn't determine conditional property violation">>)
              ELSE Unconditional
         [] c.tag = "Err" ->
              IF strict
              THEN Violation("Panic", <<>>,
                     <<"malformed conditional property violation">>)
              ELSE Unconditional

NoAnnotation ==
    [tag |-> "None", violation |-> Unconditional, text |-> <<>>, source |-> ""]

\* parse_fn_def: the override of the TOML file first, then the doc comment
parse_fn_def(toml, doc, is_local, args) ==
    LET src == IF toml.some THEN "TomlOverride" ELSE "DocComment"
        doc_str == IF toml.some THEN toml ELSE doc
        found == fn_def_regex(doc_str.str)
        text == section_text(SubSeq(doc_str.str, found.end, Len(doc_str.str)))
    IN IF ~doc_str.some \/ ~found.found THEN NoAnnotation
       ELSE [tag |-> "Some",
             violation |-> violation_from_text(is_local, text, args),
             text |-> text, source |-> src]

ConsiderProperty == [tag |-> "ConsiderProperty", conditions |-> <<>>]
ConsiderConditions(conditions) ==
    [tag |-> "ConsiderConditions", conditions |-> conditions]
NoObligation == [tag |-> "None", conditions |-> <<>>]

\* a version that decides by the requirement alone
creates_obligation_per_requirement(violation, args) ==
    CASE violation.tag = "Conditionally" -> ConsiderConditions(violation.conditions)
      [] violation.tag = "Unconditional" -> ConsiderProperty
      [] violation.tag = "Never" -> NoObligation

\* DefAnnotation::creates_obligation
creates_obligation(violation, args) ==
    CASE violation.tag = "Conditionally" /\ args.fine_grained ->
            ConsiderConditions(violation.conditions)
      [] violation.tag = "Conditionally" /\ ~args.fine_grained -> ConsiderProperty
      [] violation.tag = "Unconditional" -> ConsiderProperty
      [] violation.tag = "Never" -> NoObligation

\* the search goes on through the item of the function
take_all(chain) == Len(chain)

\* take_while(not Item, not ImplItem): how many nodes are tried
take_while(chain) ==
    IF \E i \in 1..Len(chain) : chain[i].node \in {"Item", "ImplItem"}
    THEN (CHOOSE i \in 1..Len(chain) :
            /\ chain[i].node \in {"Item", "ImplItem"}
            /\ \A j \in 1..(i - 1) : chain[j].node \notin {"Item", "ImplItem"}) - 1
    ELSE Len(chain)

NoExprAnnotation == [tag |-> "None", text |-> <<>>, span |-> 0]

\* the closure of find_map: the doc comment of the node has the marker
has_marker(n) == n.doc.some /\ callsite_regex(n.doc.str).found

\* parse_expr: chain is the call expression followed by its parents
parse_expr(chain) ==
    LET try_these == take_while(chain)
        hits == { i \in 1..try_these : has_marker(chain[i]) }
    IN IF hits = {} THEN NoExprAnnotation
       ELSE LET i == CHOOSE k \in hits : \A j \in hits : k <= j
                doc_str == chain[i].doc.str
            IN [tag |-> "Some",
                text |-> SubSeq(doc_str, callsite_regex(doc_str).end, Len(doc_str)),
                span |-> i]

\* similar_buzzwords
similar_buzzwords ==
    { [word |-> <<"v", "a", "l", "i", "d", "i", "t", "y">>,
       similar |-> {<<"v", "a", "l", "i", "d">>}],
      [word |-> <<"s", "i", "z", "e">>,
       similar |-> {<<"l", "a", "r", "g", "e", "r">>}],
      [word |-> <<"l", "e", "n", "g", "t", "h">>,
       similar |-> {<<"l", "e", "n", "(", ")">>}],
      [word |-> <<"s", "o", "u", "n", "d", "n", "e", "s", "s">>,
       similar |-> {<<"s", "o", "u", "n", "d">>}],
      [word |-> <<"a", "l", "i", "g", "n", "m", "e", "n", "t">>,
       similar |-> {<<"a", "l", "i", "g", "n">>}],
      [word |-> <<"l", "i", "f", "e", "t", "i", "m", "e">>,
       similar |-> {<<"o", "u", "t", "l", "i", "v", "e">>,
                    <<"l", "i", "v", "e", " ", "f", "o", "r", " ", "a", "t", " ", "l", "e", "a", "s", "t">>}] }

\* contains_word_or_synonym
contains_word_or_synonym(justification, word) ==
    LET valid_names == {word} \cup
            UNION { e.similar : e \in { x \in similar_buzzwords : x.word = word } }
    IN \E buzzword \in valid_names : contains(justification, buzzword)

\* buzzword_satisfied
buzzword_satisfied(justification, condition_name) ==
    LET words == split(condition_name, {"&", "-"}) IN
    \A i \in 1..Len(words) : contains_word_or_synonym(justification, words[i])

\* ExpressionAnnotation::unconsidered_conditions; the assert! is modelled by
\* satisfies_obligation
unconsidered_conditions(text, conditions) ==
    LET text_lower == to_lowercase(text) IN
    SelectSeq(conditions, LAMBDA c : ~buzzword_satisfied(text_lower, c.name))

\* ExpressionAnnotation::satisfies_obligation: Ok, Err with the names of the
\* conditions not considered, or the panic of the assert!
satisfies_obligation(text, obligation, args) ==
    CASE obligation.tag = "ConsiderProperty" -> [tag |-> "Ok", names |-> <<>>]
      [] obligation.tag = "ConsiderConditions" ->
           IF obligation.conditions # <<>> /\ ~args.buzzword_checking
           THEN [tag |-> "Panic", names |-> <<>>]
           ELSE LET unconsidered == unconsidered_conditions(text, obligation.conditions)
                IN IF unconsidered = <<>> THEN [tag |-> "Ok", names |-> <<>>]
                   ELSE [tag |-> "Err",
                         names |-> [i \in 1..Len(unconsidered) |-> unconsidered[i].name]]

----------------------------------------------------------------------------
(* the annotations given to parse_fn_def, creates_obligation, parse_expr and
   satisfies_obligation *)

\* the doc comments of a function definition
Doc_nn ==
    << "#", " ", "S", "a", "f", "e", "t", "y", "\n", "-", " ", "n", "n",
       ":", " ", "o", "k" >>
Doc_prose ==
    << "#", " ", "S", "a", "f", "e", "t", "y", "\n", "p", "t", "r", " ",
       "o", "k" >>
Doc_no_colon ==
    << "#", " ", "S", "a", "f", "e", "t", "y", "\n", "-", " ", "n", "n" >>
Doc_nn_size ==
    << "#", " ", "S", "a", "f", "e", "t", "y", "\n", "-", " ", "n", "n",
       ":", " ", "o", "k", "\n", "-", " ", "s", "i", "z", "e", ":", " ",
       "o", "k" >>
Doc_Align ==
    << "#", " ", "S", "a", "f", "e", "t", "y", "\n", "-", " ", "A", "l",
       "i", "g", "n", ":", " ", "o", "k" >>
Doc_non_null ==
    << "#", " ", "S", "a", "f", "e", "t", "y", "\n", "-", " ", "n", "o",
       "n", "-", "n", "u", "l", "l", ":", " ", "o", "k" >>
Doc_lower_header ==
    << "#", " ", "s", "a", "f", "e", "t", "y", "\n", "-", " ", "n", "n",
       ":", " ", "o", "k" >>
Doc_sections ==
    << "D", "o", "c", "\n", "#", "#", " ", "S", "A", "F", "E", "T", "Y",
       "\n", "*", " ", "n", "n", ":", " ", "o", "k", "\n", "#", " ", "E",
       "x", "\n", "-", " ", "x" >>
Doc_spaced_name ==
    << "#", " ", "S", "a", "f", "e", "t", "y", "\n", "-", " ", "a", " ",
       "b", ":", " ", "o", "k" >>
Doc_empty_description ==
    << "#", " ", "S", "a", "f", "e", "t", "y", "\n", "-", " ", "n", "n",
       ":" >>
Doc_empty_name ==
    << "#", " ", "S", "a", "f", "e", "t", "y", "\n", "-", " ", ":", " ",
       "o", "k" >>

\* the doc comments of a call site
Just_prose ==
    << "S", "A", "F", "E", "T", "Y", ":", " ", "c", "h", "e", "c", "k", "e",
       "d" >>
Just_nn ==
    << "S", "A", "F", "E", "T", "Y", ":", "\n", "-", " ", "n", "n", ":",
       " ", "o", "k" >>
Just_zz_nn ==
    << "S", "A", "F", "E", "T", "Y", ":", "\n", "-", " ", "z", "z", ":",
       " ", "n", "n", " ", "o", "k" >>
Just_Align ==
    << "S", "a", "f", "e", "t", "y", ":", "\n", "-", " ", "A", "l", "i",
       "g", "n", ":", " ", "o", "k" >>
Just_larger ==
    << "S", "A", "F", "E", "T", "Y", ":", " ", "n", "n", " ", "l", "a", "r",
       "g", "e", "r" >>
Just_nn_zz ==
    << "S", "A", "F", "E", "T", "Y", ":", "\n", "-", " ", "n", "n", ":",
       " ", "o", "k", "\n", "-", " ", "z", "z", ":", " ", "k" >>
Just_non_and_null ==
    << "S", "A", "F", "E", "T", "Y", ":", " ", "n", "o", "n", " ", "a", "n",
       "d", " ", "n", "u", "l", "l" >>
Just_Aligned ==
    << "S", "A", "F", "E", "T", "Y", ":", " ", "A", "l", "i", "g", "n", "e",
       "d" >>
Plain_doc == <<"s", "a", "f", "e", "t", "y", ":", " ", "n", "n">>

FnDocs ==
    { NoText } \cup
    { Text(d) : d \in { Doc_nn,
                     Doc_prose,
                     Doc_no_colon,
                     Doc_nn_size,
                     Doc_Align,
                     Doc_non_null,
                     Doc_lower_header,
                     Doc_sections,
                     Doc_spaced_name,
                     Doc_empty_description,
                     Doc_empty_name } }

CallDocs ==
    { NoText } \cup
    { Text(d) : d \in { Just_prose,
                     Just_nn,
                     Just_zz_nn,
                     Just_Align,
                     Just_larger,
                     Just_nn_zz,
                     Just_non_and_null,
                     Just_Aligned } }

\* the most nodes between a call and the item of its function
MaxInner == 3

Args == [fine_grained : BOOLEAN, check_dependencies : BOOLEAN,
         buzzword_checking : BOOLEAN]

InnerKind(i) == IF i = 1 THEN "Expr" ELSE IF i % 2 = 0 THEN "Block" ELSE "LetStmt"

\* a call under n nodes, the item of its function (or method) and the item
\* around it, each with no doc comment, one without marker or one with it
Chains(n) ==
    { [i \in 1..(n + 2) |->
         Node(IF i <= n THEN InnerKind(i) ELSE IF i = n + 1 THEN b ELSE "Item",
              d[i])]
      : d \in [1..(n + 2) -> {NoText, Text(Plain_doc), Text(Just_nn)}],
        b \in {"Item", "ImplItem"} }

CallWith(d) == <<Node("Expr", d), Node("Block", NoText), Node("Item", NoText)>>

UnsetDef == [tag |-> "Unset", violation |-> Unconditional, text |-> <<>>,
             source |-> ""]

Input(args, is_local, toml, doc, chain, start, def) ==
    [args |-> args, is_local |-> is_local, toml |-> toml, doc |-> doc,
     chain |-> chain, start |-> start, def |-> def]

\* every placement of doc comments around a call of a function that
\* requires nn
PlacementInputs ==
    { Input(a, TRUE, NoText, Text(Doc_nn), c, "parse_fn_def", UnsetDef)
      : a \in { x \in Args : x.buzzword_checking /\ ~x.check_dependencies },
        c \in UNION { Chains(n) : n \in 1..MaxInner } }

\* every requirement text against every justification text on the call
TextInputs ==
    { Input(a, l, NoText, d, CallWith(j), "parse_fn_def", UnsetDef)
      : a \in Args, l \in BOOLEAN, d \in FnDocs, j \in CallDocs }

\* a requirement string of the override file in place of the doc comment
OverrideInputs ==
    { Input(a, l, Text(t), d, CallWith(Text(Just_nn)), "parse_fn_def", UnsetDef)
      : a \in Args, l \in BOOLEAN, t \in {Doc_nn, Doc_prose},
        d \in {NoText, Text(Doc_nn_size)} }

\* an annotation with each PropertyViolation, given to creates_obligation
ViolationInputs ==
    { Input(a, TRUE, NoText, NoText, CallWith(j), "creates_obligation",
            [tag |-> "Some", violation |-> v, text |-> <<>>,
             source |-> "DocComment"])
      : a \in Args, j \in {NoText, Text(Just_prose), Text(Just_nn)},
        v \in { Never, Unconditional,
                Conditionally(<<[name |-> <<"n", "n">>,
                                 description |-> <<"o", "k">>]>>) } }

UnsetObligation == [tag |-> "Unset", conditions |-> <<>>]
UnsetAnnotation == [tag |-> "Unset", text |-> <<>>, span |-> 0]
UnsetVerdict == [tag |-> "Unset", names |-> <<>>]

InitObligation ==
    /\ arg \in PlacementInputs \cup TextInputs \cup OverrideInputs
                \cup ViolationInputs
    /\ pc = arg.start
    /\ out = [def |-> arg.def, obligation |-> UnsetObligation,
              annotation |-> UnsetAnnotation, verdict |-> UnsetVerdict]
    /\ kind = [f \in Funcs |-> "Fn"]
    /\ body = [f \in Funcs |-> <<>>]
    /\ entry = <<>>
    /\ to_visit = <<>>
    /\ reachable = <<>>
    /\ expanded = [f \in Funcs |-> 0]
    /\ reqDoc = [d \in Defs |-> NoDoc]
    /\ external = [d \in Defs |-> NoDoc]
    /\ callChain = [f \in Funcs |-> <<>>]
    /\ axioms = [f \in Funcs |-> <<>>]
    /\ checked = {}
    /\ emitted = <<>>
    /\ res = "Ok"

\* parse_fn_def is applied to the definition of the callee
ParseFnDef ==
    /\ pc = "parse_fn_def"
    /\ LET r == parse_fn_def(arg.toml, arg.doc, arg.is_local, arg.args) IN
         /\ out' = [out EXCEPT !.def = r]
         /\ emitted' = emitted \o
               [i \in 1..Len(r.violation.emitted) |->
                  Diag("error", "callee", <<>>, <<>>, <<>>, r.violation.emitted[i])]
         /\ pc' = CASE r.tag = "None" -> "unannotated"
                    [] r.violation.tag = "Panic" -> "panic"
                    [] OTHER -> "creates_obligation"
    /\ UNCHANGED <<progVars, walkVars, checked, res, arg>>

\* creates_obligation is applied to the annotation of the callee
CreatesObligation ==
    /\ pc = "creates_obligation"
    /\ LET o == creates_obligation(out.def.violation, arg.args) IN
         /\ out' = [out EXCEPT !.obligation = o]
         /\ pc' = IF o.tag = "None" THEN "no_obligation" ELSE "parse_expr"
    /\ UNCHANGED <<progVars, walkVars, checkVars, arg>>

\* parse_expr is applied to the call expression
ParseExpr ==
    /\ pc = "parse_expr"
    /\ LET a == parse_expr(arg.chain) IN
         /\ out' = [out EXCEPT !.annotation = a]
         /\ pc' = IF a.tag = "None" THEN "unjustified" ELSE "satisfies_obligation"
    /\ UNCHANGED <<progVars, walkVars, checkVars, arg>>

\* satisfies_obligation is applied to the annotation found for the call
SatisfiesObligation ==
    /\ pc = "satisfies_obligation"
    /\ LET v == satisfies_obligation(out.annotation.text, out.obligation, arg.args) IN
         /\ out' = [out EXCEPT !.verdict = v]
         /\ emitted' = IF v.tag = "Err"
                       THEN Append(emitted,
                              Diag("error", "callee", <<>>, <<>>, <<>>,
                                   "didn't consider some obligations"))
                       ELSE emitted
         /\ res' = IF v.tag = "Err" THEN "Err" ELSE res
         /\ pc' = CASE v.tag = "Ok" -> "resolved"
                    [] v.tag = "Err" -> "unresolved"
                    [] v.tag = "Panic" -> "panic"
    /\ UNCHANGED <<progVars, walkVars, checked, arg>>

NextObligation ==
    ParseFnDef \/ CreatesObligation \/ ParseExpr \/ SatisfiesObligation

SpecObligation == InitObligation /\ [][NextObligation]_vars

----------------------------------------------------------------------------
(* justifications and obligations: C6, C8, C9, C10 *)

\* the nodes of the call's chain below the item of the enclosing function
\* whose doc comment has the justification marker
Marked == { i \in 1..(Boundary(arg.chain) - 1) : has_marker(arg.chain[i]) }

\* C6: the annotation found for a call comes from the innermost node, the
\* call expression first, below the item of the enclosing function or method
\* whose doc comment has the marker, and there is none when no such node
\* exists: a marker on the function definition itself or outside of it is
\* never used
C6_JustificationSearch ==
    out.annotation.tag # "Unset" =>
        IF Marked = {} THEN out.annotation.tag = "None"
        ELSE /\ out.annotation.tag = "Some"
             /\ out.annotation.span \in Marked
             /\ \A j \in Marked : out.annotation.span <= j

\* the marker is on the let statement around the call and on the function,
\* the call expression has a doc comment without marker: the let statement won
C6_Witness ==
    /\ out.annotation.tag = "Some"
    /\ Len(arg.chain) = 5
    /\ arg.chain[1].doc = Text(Plain_doc)
    /\ ~has_marker(arg.chain[2])
    /\ arg.chain[3].node = "LetStmt" /\ has_marker(arg.chain[3])
    /\ arg.chain[4].node = "Item" /\ has_marker(arg.chain[4])
    /\ out.annotation.span = 3

\* the bullets of the justification found for the call
JustificationBullets == try_parse_conditions(out.annotation.text)

\* C8: in fine-grained mode a justification with bullets resolves the call
\* exactly if every required condition has a bullet of the same name
C8_ExactNameCoverage ==
    (/\ out.verdict.tag \in {"Ok", "Err"}
     /\ arg.args.fine_grained
     /\ out.obligation.tag = "ConsiderConditions"
     /\ JustificationBullets.tag = "Some") =>
        (out.verdict.tag = "Ok" <=>
           \A c \in 1..Len(out.obligation.conditions) :
              \E b \in 1..Len(JustificationBullets.conditions) :
                 JustificationBullets.conditions[b].name
                    = out.obligation.conditions[c].name)

\* C9: the mode decides the obligation: none for Never; in coarse mode
\* ConsiderProperty, and a justification in scope resolves the call whatever
\* it names; ConsiderConditions in fine-grained mode only, for every
\* requirement with conditions, and with the conditions parsed from the
\* requirement section
C9_ObligationByMode ==
    /\ out.obligation.tag # "Unset" =>
         /\ out.def.violation.tag = "Never" => out.obligation.tag = "None"
         /\ (~arg.args.fine_grained /\ out.def.violation.tag # "Never")
               => out.obligation = ConsiderProperty
         /\ out.obligation.tag = "ConsiderConditions" =>
               /\ arg.args.fine_grained
               /\ out.obligation.conditions = out.def.violation.conditions
               /\ arg.start = "parse_fn_def" =>
                    out.obligation.conditions
                       = try_parse_conditions(out.def.text).conditions
         /\ (arg.args.fine_grained /\ out.def.violation.tag = "Conditionally")
               => out.obligation.tag = "ConsiderConditions"
    /\ (~arg.args.fine_grained /\ out.annotation.tag = "Some")
          => pc \in {"satisfies_obligation", "resolved"}

\* coarse mode, the requirement has the condition nn, the justification names
\* nothing: the call is resolved
C9_Witness ==
    /\ pc = "resolved"
    /\ ~arg.args.fine_grained
    /\ arg.doc = Text(Doc_nn)
    /\ out.def.violation.tag = "Conditionally"
    /\ arg.chain = CallWith(Text(Just_prose))
    /\ out.obligation = ConsiderProperty

\* parse_fn_def found a requirement section without conditions it could parse
UndeterminedSection ==
    /\ arg.start = "parse_fn_def"
    /\ out.def.tag = "Some"
    /\ try_parse_conditions(out.def.text).tag # "Some"

----------------------------------------------------------------------------
(* hocklorp/src/annotations/parsing.rs and types.rs on characters *)

Unsafe_ == <<"U", "n", "s", "a", "f", "e">>
UNSAFE_ == <<"U", "N", "S", "A", "F", "E">>

\* a match of a regex: the first position and the position after the last
Match(s, e) == [found |-> TRUE, start |-> s, end |-> e]
NoMatch == [found |-> FALSE, start |-> 0, end |-> 0]

\* Requirement::section_marker_regex (\n|^)(\s*)[#]+ (Unsafe|UNSAFE)(\n|$)
\* matched at s: the position after the match, 0 if there is no match at s
section_marker_regex_at(t, s) ==
    LET p == after_line_break(t, s)
        j == skip_whitespace(t, p)
        k == skip_hashes(t, j)
        e == k + Len(Unsafe_) + 1
    IN IF /\ p # 0
          /\ k > j
          /\ k <= Len(t) /\ t[k] = " "
          /\ e - 1 <= Len(t)
          /\ SubSeq(t, k + 1, e - 1) \in {Unsafe_, UNSAFE_}
          /\ (e > Len(t) \/ t[e] = "\n")
       THEN IF e > Len(t) THEN e ELSE e + 1
       ELSE 0

\* Regex::find: the leftmost match of the marker
section_marker_regex(t) ==
    IF \E s \in 1..Len(t) : section_marker_regex_at(t, s) # 0
    THEN LET s == CHOOSE s \in 1..Len(t) :
                    /\ section_marker_regex_at(t, s) # 0
                    /\ \A r \in 1..(s - 1) : section_marker_regex_at(t, r) = 0
         IN Match(s, section_marker_regex_at(t, s))
    ELSE NoMatch

\* section_end_regex \n(\s*)([#]+|\n) matched at s: a line break, then
\* whitespace up to a '#', or whitespace that holds another line break
section_end_regex_at(t, s) ==
    /\ t[s] = "\n"
    /\ LET j == skip_whitespace(t, s + 1) IN
         \/ (j <= Len(t) /\ t[j] = "#")
         \/ \E k \in (s + 1)..(j - 1) : t[k] = "\n"

\* the start of the leftmost match of section_end_regex, or the length of the
\* text past its end: map_or(comment_str.len(), |found| found.start())
section_end_regex(t) ==
    IF \E s \in 1..Len(t) : section_end_regex_at(t, s)
    THEN CHOOSE s \in 1..Len(t) :
            /\ section_end_regex_at(t, s)
            /\ \A r \in 1..(s - 1) : ~section_end_regex_at(t, r)
    ELSE Len(t) + 1

\* BulletKind::regex_pattern (\n|^)(\s*)<bullet> matched at s
regex_pattern_at(t, s, bullet) ==
    LET p == after_line_break(t, s)
        j == skip_whitespace(t, p)
    IN IF p # 0 /\ j <= Len(t) /\ t[j] = bullet THEN j + 1 ELSE 0

\* the leftmost match of the bullet pattern that starts at from or later
regex_pattern(t, from, bullet) ==
    IF \E s \in from..Len(t) : regex_pattern_at(t, s, bullet) # 0
    THEN LET s == CHOOSE s \in from..Len(t) :
                    /\ regex_pattern_at(t, s, bullet) # 0
                    /\ \A r \in from..(s - 1) : regex_pattern_at(t, r, bullet) = 0
         IN Match(s, regex_pattern_at(t, s, bullet))
    ELSE NoMatch

\* a version that takes the ranges in the slice as ranges of the doc string
RECURSIVE marker_ranges_in_slice(_, _)
marker_ranges_in_slice(new_str, most_recent) ==
    LET pushed(next_occ) ==
            IF ~next_occ.found THEN <<>>
            ELSE <<[lo |-> next_occ.start - 1, hi |-> next_occ.end - 1]>>
                 \o marker_ranges_in_slice(
                        SubSeq(new_str, next_occ.end, Len(new_str)), most_recent)
    IN pushed(section_marker_regex(new_str))

\* the while loop over the occurrences of the marker: the ranges, counted
\* from 0, of every match in the doc string
RECURSIVE marker_ranges(_, _)
marker_ranges(new_str, most_recent) ==
    LET pushed(next_occ) ==
            IF ~next_occ.found THEN <<>>
            ELSE <<[lo |-> (next_occ.start - 1) + most_recent,
                    hi |-> (next_occ.end - 1) + most_recent]>>
                 \o marker_ranges(SubSeq(new_str, next_occ.end, Len(new_str)),
                                  most_recent + (next_occ.end - 1))
    IN pushed(section_marker_regex(new_str))

\* BulletKind::choose: the bullet of the section, or the error
choose(for_string) ==
    LET chosen(a_pos, h_pos) ==
            CASE a_pos.found /\ h_pos.found -> [tag |-> "Err", kind |-> "NonMatchingBullets", bullet |-> ""]
              [] a_pos.found /\ ~h_pos.found -> [tag |-> "Ok", kind |-> "", bullet |-> "*"]
              [] ~a_pos.found /\ h_pos.found -> [tag |-> "Ok", kind |-> "", bullet |-> "-"]
              [] OTHER -> [tag |-> "Err", kind |-> "EmptyMarker", bullet |-> ""]
    IN chosen(regex_pattern(for_string, 1, "*"), regex_pattern(for_string, 1, "-"))

\* bullet_pat.split(comment_str): the pieces between the matches from the
\* position from on, each with the position of its first character
RECURSIVE pattern_split(_, _, _)
pattern_split(t, from, bullet) ==
    LET pieces(next) ==
            IF ~next.found
            THEN <<[at |-> from, str |-> SubSeq(t, from, Len(t))]>>
            ELSE <<[at |-> from, str |-> SubSeq(t, from, next.start - 1)]>>
                 \o pattern_split(t, next.end, bullet)
    IN pieces(regex_pattern(t, from, bullet))

INVALID_WHITESPACE == {" ", "\n", "\t"}

\* types.rs check_single_word
check_single_word(name) ==
    IF \E i \in 1..Len(name) : name[i] \in INVALID_WHITESPACE
    THEN IF Len(SelectSeq(split(name, INVALID_WHITESPACE),
                          LAMBDA word : word # <<>>)) = 1
         THEN [tag |-> "Err", reason |-> "TrailingWhitespace", name |-> <<>>]
         ELSE [tag |-> "Err", reason |-> "MultipleWords", name |-> <<>>]
    ELSE [tag |-> "Ok", reason |-> "", name |-> name]

\* ConditionName::try_new
try_new(name) == check_single_word(name)

\* Result<Vec<Requirement>, ParsingError>
ParsedOk(items) ==
    [tag |-> "Ok", kind |-> "", items |-> items, ranges |-> <<>>,
     at |-> 0, reason |-> ""]
ParsingError(error, ranges, at, reason) ==
    [tag |-> "Err", kind |-> error, items |-> <<>>, ranges |-> ranges,
     at |-> at, reason |-> reason]

\* a version that keeps the whitespace around the description
Requirement_parse_bullet_untrimmed(bullet_pre_sep, bullet_post_sep, bullet_pre_chars) ==
    LET made(name) ==
            IF name.tag = "Err"
            THEN ParsingError("InvalidConditionName", <<bullet_pre_chars>>, 0,
                              name.reason)
            ELSE ParsedOk(<<[name |-> name.name, description |-> bullet_post_sep]>>)
    IN made(try_new(bullet_pre_sep))

\* Requirement::parse_bullet
Requirement_parse_bullet(bullet_pre_sep, bullet_post_sep, bullet_pre_chars) ==
    LET made(name) ==
            IF name.tag = "Err"
            THEN ParsingError("InvalidConditionName", <<bullet_pre_chars>>, 0,
                              name.reason)
            ELSE ParsedOk(<<[name |-> name.name,
                             description |-> trim(bullet_post_sep)]>>)
    IN made(try_new(bullet_pre_sep))

\* the closure mapped over the pieces of the split: one bullet, whose piece
\* starts at the position base, counted from 0, of the doc string
map_bullet(piece, base) ==
    LET bullet_str == trim(piece)
        offset == IF bullet_str = <<>> THEN base
                  ELSE base + (Len(piece) - Len(trim_start(piece)))
        first_space == position(bullet_str, {" "})
        parsed(sp) ==
            IF ~sp.found
            THEN ParsingError("NoColon",
                     <<[lo |-> offset, hi |-> offset + Len(bullet_str)]>>,
                     IF first_space = 0 THEN Len(bullet_str) ELSE first_space - 1,
                     "")
            ELSE Requirement_parse_bullet(sp.left, sp.right,
                     [lo |-> offset, hi |-> offset + Len(sp.left)])
    IN parsed(split_once(bullet_str, ":"))

\* a version that leaves out the bullets that fail and goes on
RECURSIVE collect_and_continue(_, _, _)
collect_and_continue(pieces, i, base) ==
    IF i > Len(pieces) THEN ParsedOk(<<>>)
    ELSE LET next(b) ==
                 LET rest(r) == ParsedOk(b.items \o r.items)
                 IN rest(collect_and_continue(pieces, i + 1, base))
         IN next(map_bullet(pieces[i].str, base + pieces[i].at - 1))

\* collect::<Result<Vec<_>, ParsingError>>() from the piece i on: the first
\* error, or every bullet in the order of the pieces
RECURSIVE collect(_, _, _)
collect(pieces, i, base) ==
    IF i > Len(pieces) THEN ParsedOk(<<>>)
    ELSE LET next(b) ==
                 IF b.tag = "Err" THEN b
                 ELSE LET rest(r) ==
                              IF r.tag = "Err" THEN r
                              ELSE ParsedOk(b.items \o r.items)
                      IN rest(collect(pieces, i + 1, base))
         IN next(map_bullet(pieces[i].str, base + pieces[i].at - 1))

\* ParseBulletsFromString::parse_bullets_from_string for Requirement
Requirement_parse_bullets_from_string(original_comment_str) ==
    LET bullets(comment_str, base, bullet_kind) ==
            IF bullet_kind.tag = "Err" THEN ParsingError(bullet_kind.kind, <<>>, 0, "")
            ELSE collect(pattern_split(comment_str, 1, bullet_kind.bullet), 2, base)
        section(comment_str, base) ==
            IF section_marker_regex(comment_str).found
            THEN ParsingError("MultipleMarkerPatterns",
                              marker_ranges(original_comment_str, 0), 0, "")
            ELSE LET cut(truncated) == bullets(truncated, base, choose(truncated))
                 IN cut(SubSeq(comment_str, 1, section_end_regex(comment_str) - 1))
        marked(found) ==
            IF ~found.found THEN ParsingError("NoMarkerPattern", <<>>, 0, "")
            ELSE section(SubSeq(original_comment_str, found.end,
                                Len(original_comment_str)),
                         found.end - 1)
    IN marked(section_marker_regex(original_comment_str))

----------------------------------------------------------------------------
(* annotations/span.rs and hocklorp/src/annotations/err.rs: from characters
   of the doc string back to spans of the source *)

DOC_COMMENT_PREFIX_LEN == 3

\* Span::new: the ends are put in order
Span_new(lo, hi) == IF lo > hi THEN [lo |-> hi, hi |-> lo] ELSE [lo |-> lo, hi |-> hi]
with_lo(span, lo) == Span_new(lo, span.hi)
with_hi(span, hi) == Span_new(span.lo, hi)
\* Span::to
to(span, end) ==
    Span_new(IF span.lo < end.lo THEN span.lo ELSE end.lo,
             IF span.hi > end.hi THEN span.hi ELSE end.hi)

\* a.saturating_sub(b)
saturating_sub(a, b) == IF a > b THEN a - b ELSE 0

\* the doc comments of an item, one "///" comment per line of the doc
\* string: the comment and its span, where each comment starts indent
\* columns into its line, the lines one below the other
RECURSIVE doc_comments_from(_, _, _)
doc_comments_from(comments, indent, line_lo) ==
    IF comments = <<>> THEN <<>>
    ELSE LET lo == line_lo + indent
             hi == lo + DOC_COMMENT_PREFIX_LEN + Len(Head(comments))
         IN <<[span |-> Span_new(lo, hi), comment |-> Head(comments)]>>
            \o doc_comments_from(Tail(comments), indent, hi + 1)

\* Mergeable::merge_adjacent: the fold over the spans
RECURSIVE merge_adjacent(_)
merge_adjacent(spans) ==
    IF spans = <<>> THEN <<>>
    ELSE LET folded(base, span) ==
                 IF base # <<>> /\ base[Len(base)].hi + 1 = span.lo
                 THEN [base EXCEPT ![Len(base)] = to(base[Len(base)], span)]
                 ELSE Append(base, span)
         IN folded(merge_adjacent(SubSeq(spans, 1, Len(spans) - 1)),
                   spans[Len(spans)])

\* the loop of span_some_comments from the comment i on
RECURSIVE final_spans(_, _, _, _)
final_spans(doc_comments, chars, i, line_start_char_no) ==
    IF i > Len(doc_comments) THEN <<>>
    ELSE LET span == doc_comments[i].span
             len == Len(doc_comments[i].comment)
             wanted_char_start == saturating_sub(chars.lo, line_start_char_no)
             from_start == saturating_sub(chars.hi, line_start_char_no)
             wanted_char_end == IF from_start < len THEN from_start ELSE len
             wanted_span_start ==
                 IF wanted_char_start = 0 THEN span.lo
                 ELSE span.lo + wanted_char_start + DOC_COMMENT_PREFIX_LEN
             wanted_span_end ==
                 IF wanted_char_end = 0 THEN span.lo
                 ELSE span.lo + wanted_char_end + DOC_COMMENT_PREFIX_LEN
             cut_lo == IF wanted_span_start > span.lo
                       THEN with_lo(span, wanted_span_start) ELSE span
             cut == IF wanted_span_end < cut_lo.hi
                    THEN with_hi(cut_lo, wanted_span_end) ELSE cut_lo
         IN (IF cut.hi # cut.lo THEN <<cut>> ELSE <<>>)
            \o final_spans(doc_comments, chars, i + 1, line_start_char_no + len + 1)

\* span_some_comments
span_some_comments(doc_comments, chars) ==
    merge_adjacent(final_spans(doc_comments, chars, 1, 0))

\* span_all_comments
span_all_comments(doc_comments) ==
    merge_adjacent([i \in 1..Len(doc_comments) |-> doc_comments[i].span])

\* build_no_colon_diag: the diagnostic with the span of the bullet and the
\* place of the suggested colon, or the panic of name_span[0] when no span
\* was found for it
build_no_colon_diag(doc_comments, bullet_range, first_word_len) ==
    LET built(bullet_span, name_span) ==
            IF name_span = <<>>
            THEN [tag |-> "Panic", span |-> <<>>, suggestion |-> <<>>]
            ELSE [tag |-> "Diag", span |-> bullet_span,
                  suggestion |-> <<name_span[1]>>]
    IN built(span_some_comments(doc_comments, bullet_range),
             span_some_comments(doc_comments,
                [lo |-> bullet_range.lo + first_word_len,
                 hi |-> bullet_range.lo + first_word_len + 1]))

----------------------------------------------------------------------------
(* doc comments given to the two parsers, line by line *)

MaxDepth == 2
MaxBullets == 3
MaxLines == 3
MaxName == 3
MaxIndent == 1
MaxComments == 3

\* a header line: depth '#', a space, the keyword of the property in the
\* letter case word, and tail after it
Header(depth, word, tail) ==
    [line |-> "header", depth |-> depth, word |-> word, tail |-> tail,
     name |-> <<>>, description |-> <<>>]
\* a bullet line "<bullet> name: description"
Bullet(bullet, name, description) ==
    [line |-> "bullet", depth |-> 0, word |-> bullet,
     tail |-> <<bullet, " ">> \o name \o <<":", " ">> \o description,
     name |-> name, description |-> description]
\* a bullet line "<bullet> chars" whose text is not checked to be
\* "name: description"
BulletText(bullet, chars) ==
    [line |-> "item", depth |-> 0, word |-> bullet,
     tail |-> <<bullet, " ">> \o chars, name |-> chars, description |-> <<>>]
\* any other line
Line(chars) ==
    [line |-> "text", depth |-> 0, word |-> "", tail |-> chars,
     name |-> <<>>, description |-> <<>>]

\* the keyword of the property ("Unsafe" for hocklorp's Requirement, "Safety"
\* for SafetyProperty) in a letter case
keyword(property, word) ==
    CASE property = "Unsafe" /\ word = "Title" -> Unsafe_
      [] property = "Unsafe" /\ word = "UPPER" -> UNSAFE_
      [] property = "Unsafe" /\ word = "lower" -> <<"u", "n", "s", "a", "f", "e">>
      [] property = "Unsafe" /\ word = "Mixed" -> <<"u", "n", "S", "a", "f", "e">>
      [] property = "Safety" /\ word = "Title" -> Safety_
      [] property = "Safety" /\ word = "UPPER" -> SAFETY_
      [] property = "Safety" /\ word = "lower" -> <<"s", "a", "f", "e", "t", "y">>
      [] property = "Safety" /\ word = "Mixed" -> <<"s", "a", "F", "e", "t", "y">>

\* the characters of a line
line_chars(l, property) ==
    IF l.line = "header"
    THEN [i \in 1..l.depth |-> "#"] \o <<" ">> \o keyword(property, l.word) \o l.tail
    ELSE l.tail

\* the doc string: the lines joined by line breaks
RECURSIVE doc_text(_, _)
doc_text(lines, property) ==
    IF lines = <<>> THEN <<>>
    ELSE IF Len(lines) = 1 THEN line_chars(lines[1], property)
    ELSE line_chars(lines[1], property) \o <<"\n">> \o doc_text(Tail(lines), property)

\* sequences of at most n elements of S
SeqsUpTo(S, n) == UNION { [1..k -> S] : k \in 0..n }

nn_ == <<"n", "n">>
Prose == Line(<<"t", "e", "x", "t">>)
Blank == Line(<<>>)
OtherSection == Line(<<"#", " ", "P", "a", "n", "i", "c", "s">>)

\* name and description of the bullets of well-formed sections: a name with
\* a hyphen and an underscore, a description with a colon and one that goes
\* on in an indented second line
Conditions ==
    { <<nn_, <<"o", "k">>>>,
      <<<<"a", "-", "b", "_", "c">>, <<"x", ":", " ", "y">>>>,
      <<<<"s", "z">>, <<"i", "s", "\n", " ", " ", "o", "k">>>> }

\* well-formed requirement sections: text before the marker or none, the
\* header alone on its line, prose before the first bullet or none, 1 to
\* MaxBullets bullets of one style, the next section or the end
RoundTripDocs ==
    { lead \o <<Header(d, w, <<>>)>> \o pre
         \o [i \in 1..Len(cs) |-> Bullet(b, cs[i][1], cs[i][2])] \o post
      : lead \in {<<>>, <<Prose, Blank>>}, d \in 1..MaxDepth,
        w \in {"Title", "UPPER"}, pre \in {<<>>, <<Prose>>}, b \in {"-", "*"},
        cs \in SeqsUpTo(Conditions, MaxBullets) \ {<<>>},
        post \in {<<>>, <<Blank, OtherSection>>} }

\* lines of the documents about the marker: the header in each letter case
\* and at two depths, with a space or a word after the keyword, a bullet,
\* prose and an empty line
MarkerLines ==
    { Header(1, "Title", <<>>), Header(MaxDepth, "UPPER", <<>>),
      Header(1, "lower", <<>>), Header(1, "Mixed", <<>>),
      Header(1, "Title", <<" ">>), Header(1, "Title", <<" ", "x">>),
      Bullet("-", nn_, <<"o", "k">>), Prose, Blank }

MarkerDocs == SeqsUpTo(MarkerLines, MaxLines) \ {<<>>}

\* lines of the sections about the bullet style
StyleLines ==
    { Bullet("-", nn_, <<"o", "k">>), Bullet("*", <<"s", "z">>, <<"o", "k">>),
      Prose, Blank, OtherSection }

StyleDocs ==
    { <<Header(1, "Title", <<>>)>> \o ls : ls \in SeqsUpTo(StyleLines, MaxLines) }

\* the texts of bullets, well-formed and malformed: "nn: ok", "sz: ok", a
\* single word, two words without a colon, a name of two words and a name
\* with a space before the colon
BulletTexts ==
    { <<"n", "n", ":", " ", "o", "k">>, <<"s", "z", ":", " ", "o", "k">>,
      <<"n", "n">>, <<"n", "n", " ", "p", "t", "r">>,
      <<"a", " ", "b", ":", " ", "x">>, <<"n", "n", " ", ":", " ", "x">> }

\* sections of 1 to MaxBullets bullets of one style with those texts
BulletDocs ==
    { <<Header(1, "Title", <<>>)>> \o [i \in 1..Len(ts) |-> BulletText(b, ts[i])]
      : b \in {"-", "*"}, ts \in SeqsUpTo(BulletTexts, MaxBullets) \ {<<>>} }

\* names given to ConditionName::try_new
Names == SeqsUpTo({"n", "-", "_", " ", "\t", "\n"}, MaxName)

DocInput(class, lines, indent) ==
    [class |-> class, start |-> "parse_bullets_from_string", lines |-> lines,
     name |-> <<>>, indent |-> indent]
NameInput(name) ==
    [class |-> "name", start |-> "try_new", lines |-> <<>>, name |-> name,
     indent |-> 0]

UnsetParse == [tag |-> "Unset"]

InitParse ==
    /\ arg \in { DocInput("round_trip", ls, 0) : ls \in RoundTripDocs }
          \cup { DocInput("marker", ls, 0) : ls \in MarkerDocs }
          \cup { DocInput("style", ls, 0) : ls \in StyleDocs }
          \cup { DocInput("bullets", ls, i) : ls \in BulletDocs, i \in 0..MaxIndent }
          \cup { NameInput(n) : n \in Names }
    /\ pc = arg.start
    /\ out = [requirements |-> UnsetParse, annotation |-> UnsetParse,
              name |-> UnsetParse, diag |-> UnsetParse]
    /\ kind = [f \in Funcs |-> "Fn"]
    /\ body = [f \in Funcs |-> <<>>]
    /\ entry = <<>>
    /\ to_visit = <<>>
    /\ reachable = <<>>
    /\ expanded = [f \in Funcs |-> 0]
    /\ reqDoc = [d \in Defs |-> NoDoc]
    /\ external = [d \in Defs |-> NoDoc]
    /\ callChain = [f \in Funcs |-> <<>>]
    /\ axioms = [f \in Funcs |-> <<>>]
    /\ checked = {}
    /\ emitted = <<>>
    /\ res = "Ok"

\* hocklorp: Requirement::parse_bullets_from_string on the doc string
ParseBulletsFromString ==
    /\ pc = "parse_bullets_from_string"
    /\ out' = [out EXCEPT !.requirements =
                 Requirement_parse_bullets_from_string(doc_text(arg.lines, "Unsafe"))]
    /\ pc' = "try_parse_conditions"
    /\ UNCHANGED <<progVars, walkVars, checkVars, arg>>

\* sniff-test: the section found by fn_def_regex, cut as parse_fn_def cuts
\* it, given to try_parse_conditions
TryParseConditions ==
    /\ pc = "try_parse_conditions"
    /\ LET section(doc_str, found) ==
               IF ~found.found THEN [tag |-> "NoMarker"]
               ELSE try_parse_conditions(
                        section_text(SubSeq(doc_str, found.end, Len(doc_str))))
           of(doc_str) == section(doc_str, fn_def_regex(doc_str))
       IN out' = [out EXCEPT !.annotation = of(doc_text(arg.lines, "Safety"))]
    /\ pc' = "parsed"
    /\ UNCHANGED <<progVars, walkVars, checkVars, arg>>

\* ConditionName::try_new on the name
TryNew ==
    /\ pc = "try_new"
    /\ out' = [out EXCEPT !.name = try_new(arg.name)]
    /\ pc' = "named"
    /\ UNCHANGED <<progVars, walkVars, checkVars, arg>>

\* ParsingError::diag for the NoColon of the doc comment, whose lines are
\* the comments of the item
BuildNoColonDiag ==
    /\ pc = "parsed"
    /\ out.requirements.tag = "Err" /\ out.requirements.kind = "NoColon"
    /\ LET built(d) ==
               /\ out' = [out EXCEPT !.diag = d]
               /\ pc' = IF d.tag = "Panic" THEN "panic" ELSE "diag"
       IN built(build_no_colon_diag(
                    doc_comments_from(
                        [i \in 1..Len(arg.lines) |-> line_chars(arg.lines[i], "Unsafe")],
                        arg.indent, 0),
                    out.requirements.ranges[1], out.requirements.at))
    /\ UNCHANGED <<progVars, walkVars, checkVars, arg>>

NextParse ==
    ParseBulletsFromString \/ TryParseConditions \/ TryNew \/ BuildNoColonDiag

SpecParse == InitParse /\ [][NextParse]_vars

\* doc comments of up to MaxComments lines, empty lines among them
Comments ==
    SeqsUpTo({<<>>, <<"a">>, <<"a", "b">>}, MaxComments) \ {<<>>}

InitSpan ==
    /\ arg \in [comments : Comments, indent : 0..MaxIndent]
    /\ pc = "span_some_comments"
    /\ out = [some |-> <<>>, all |-> <<>>]
    /\ kind = [f \in Funcs |-> "Fn"]
    /\ body = [f \in Funcs |-> <<>>]
    /\ entry = <<>>
    /\ to_visit = <<>>
    /\ reachable = <<>>
    /\ expanded = [f \in Funcs |-> 0]
    /\ reqDoc = [d \in Defs |-> NoDoc]
    /\ external = [d \in Defs |-> NoDoc]
    /\ callChain = [f \in Funcs |-> <<>>]
    /\ axioms = [f \in Funcs |-> <<>>]
    /\ checked = {}
    /\ emitted = <<>>
    /\ res = "Ok"

\* the length of the doc string: the comments joined by line breaks
doc_len(comments) ==
    LET RECURSIVE sum(_)
        sum(i) == IF i = 0 THEN 0 ELSE sum(i - 1) + Len(comments[i])
    IN sum(Len(comments)) + (Len(comments) - 1)

\* span_some_comments on the range of the whole doc string
SpanSomeComments ==
    /\ pc = "span_some_comments"
    /\ out' = [out EXCEPT !.some =
                 span_some_comments(doc_comments_from(arg.comments, arg.indent, 0),
                                    [lo |-> 0, hi |-> doc_len(arg.comments)])]
    /\ pc' = "span_all_comments"
    /\ UNCHANGED <<progVars, walkVars, checkVars, arg>>

\* span_all_comments on the same comments
SpanAllComments ==
    /\ pc = "span_all_comments"
    /\ out' = [out EXCEPT !.all =
                 span_all_comments(doc_comments_from(arg.comments, arg.indent, 0))]
    /\ pc' = "spanned"
    /\ UNCHANGED <<progVars, walkVars, checkVars, arg>>

NextSpan == SpanSomeComments \/ SpanAllComments

SpecSpan == InitSpan /\ [][NextSpan]_vars

----------------------------------------------------------------------------
(* the annotation parser: C15, C17, C18, C19, C20 *)

\* the (name, description) pairs of the bullet lines, in the order of the
\* lines
bullets_of(lines) ==
    LET bs == SelectSeq(lines, LAMBDA l : l.line = "bullet") IN
    [i \in 1..Len(bs) |-> [name |-> bs[i].name, description |-> bs[i].description]]

\* C15: for a well-formed requirement section with N >= 1 bullets of one
\* style, parsing succeeds and yields exactly the N (name, description)
\* pairs of the bullets, in the order of the text, each without the
\* whitespace around it; the lines that continue a description belong to it.
\* Both parsers are held to it: hocklorp's parse_bullets_from_string and
\* sniff-test's try_parse_conditions
C15_RoundTrip ==
    (pc = "parsed" /\ arg.class = "round_trip") =>
        /\ out.requirements = ParsedOk(bullets_of(arg.lines))
        /\ out.annotation = SomeC(bullets_of(arg.lines))

\* two different bullets were parsed, the second with a description that
\* goes on in a second line, after prose and before another section
C15_Witness ==
    /\ pc = "parsed" /\ arg.class = "round_trip"
    /\ Len(out.requirements.items) >= 2
    /\ out.requirements.items[1] # out.requirements.items[2]
    /\ \E i \in 1..Len(out.requirements.items[2].description) :
          out.requirements.items[2].description[i] = "\n"
    /\ arg.lines[1] = Prose
    /\ arg.lines[Len(arg.lines)] = OtherSection

\* the line is a marker of the requirement section: whitespace or none, one
\* or more '#', a space and the keyword Unsafe or UNSAFE up to the end of the
\* line
is_marker_line(chars) ==
    LET j == skip_whitespace(chars, 1)
        k == skip_hashes(chars, j)
    IN /\ k > j
       /\ k <= Len(chars) /\ chars[k] = " "
       /\ SubSeq(chars, k + 1, Len(chars)) \in {Unsafe_, UNSAFE_}

\* the lines of the document that are markers, in the order of the text
marker_lines(lines) ==
    LET n == Len(lines)
        idx == [i \in 1..n |-> i]
    IN SelectSeq(idx, LAMBDA i : is_marker_line(line_chars(lines[i], "Unsafe")))

\* the position, counted from 0, of the first character of line i in the
\* doc string
RECURSIVE line_offset(_, _)
line_offset(lines, i) ==
    IF i = 1 THEN 0
    ELSE line_offset(lines, i - 1) + Len(line_chars(lines[i - 1], "Unsafe")) + 1

\* C17: a doc string without an occurrence of the section marker yields
\* NoMarkerPattern; with two or more occurrences it yields
\* MultipleMarkerPatterns with one range per occurrence, in the order of the
\* text, each inside the text and covering the marker of its occurrence; only
\* with exactly one occurrence the bullets are parsed
C17_MarkerUniqueness ==
    (pc \in {"try_parse_conditions", "parsed"} /\ arg.class = "marker") =>
        LET text == doc_text(arg.lines, "Unsafe")
            occ == marker_lines(arg.lines)
            r == out.requirements
        IN /\ Len(occ) = 0 <=> (r.tag = "Err" /\ r.kind = "NoMarkerPattern")
           /\ Len(occ) >= 2 <=> (r.tag = "Err" /\ r.kind = "MultipleMarkerPatterns")
           /\ Len(occ) >= 2 =>
                /\ Len(r.ranges) = Len(occ)
                /\ \A k \in 1..Len(occ) :
                     LET first == line_offset(arg.lines, occ[k])
                         chars == line_chars(arg.lines[occ[k]], "Unsafe")
                     IN /\ 0 <= r.ranges[k].lo
                        /\ r.ranges[k].hi <= Len(text)
                        /\ r.ranges[k].lo <= first + (skip_whitespace(chars, 1) - 1)
                        /\ first + Len(chars) <= r.ranges[k].hi
                /\ \A k \in 1..(Len(occ) - 1) : r.ranges[k].hi <= r.ranges[k + 1].lo

\* two different markers with prose between them gave two ranges
C17_Witness ==
    /\ pc = "parsed" /\ arg.class = "marker"
    /\ out.requirements.kind = "MultipleMarkerPatterns"
    /\ Len(out.requirements.ranges) = 2
    /\ Len(arg.lines) = 3
    /\ arg.lines[2] = Prose
    /\ arg.lines[1] # arg.lines[3]

\* the line ends a section: a header line at any depth, or an empty line
ends_section(l) == l.line = "header" \/ l = Blank \/ l = OtherSection

\* the lines of the section: those after the first line, the marker, up to
\* the line that ends the section
section_lines(lines) ==
    LET rest == Tail(lines)
        stop == IF \E i \in 1..Len(rest) : ends_section(rest[i])
                THEN CHOOSE i \in 1..Len(rest) :
                        /\ ends_section(rest[i])
                        /\ \A j \in 1..(i - 1) : ~ends_section(rest[j])
                ELSE Len(rest) + 1
    IN SubSeq(rest, 1, stop - 1)

\* the bullet styles of the section
styles_of(lines) ==
    { l.word : l \in { section_lines(lines)[i] : i \in 1..Len(section_lines(lines)) }
                       \cap { b \in StyleLines : b.line = "bullet" } }

\* the verdict on the style of the section: hocklorp's parser
StyleExclusiveRequirements ==
    LET r == out.requirements
        styles == styles_of(arg.lines)
    IN /\ styles = {"-", "*"} <=> (r.tag = "Err" /\ r.kind = "NonMatchingBullets")
       /\ styles = {} <=> (r.tag = "Err" /\ r.kind = "EmptyMarker")
       /\ Cardinality(styles) = 1 <=> r.tag = "Ok"

\* the verdict on the style of the section: sniff-test's parser, which has
\* messages in place of error kinds
StyleExclusiveConditions ==
    LET a == out.annotation
        styles == styles_of(arg.lines)
    IN /\ styles = {"-", "*"} => a.tag = "Err"
       /\ styles = {} => a.tag \in {"Err", "None"}
       /\ a.tag = "Some" => Cardinality(styles) = 1

\* C18: a section that has a '-' bullet and a '*' bullet yields
\* NonMatchingBullets, whatever the number and the order of the bullets; a
\* section without any bullet yields EmptyMarker; only a section whose
\* bullets have one style is parsed into conditions. Both parsers are held
\* to it
C18_StyleExclusivity ==
    (pc = "parsed" /\ arg.class = "style") =>
        StyleExclusiveRequirements /\ StyleExclusiveConditions

\* the number of tokens of s: the positions where a run of characters other
\* than whitespace starts
tokens(s) ==
    Cardinality({ i \in 1..Len(s) :
                    /\ ~is_whitespace(s[i])
                    /\ (i = 1 \/ is_whitespace(s[i - 1])) })

\* C19: try_new(s) succeeds exactly when s is one token without whitespace
\* (hyphens and underscores allowed); a string with whitespace fails, with
\* MultipleWords if it has two or more tokens and with TrailingWhitespace
\* otherwise
C19_NameValidity ==
    pc = "named" =>
        LET s == arg.name
            spaced == \E i \in 1..Len(s) : is_whitespace(s[i])
        IN /\ out.name.tag = "Ok" <=> (tokens(s) = 1 /\ ~spaced)
           /\ out.name.tag = "Ok" => out.name.name = s
           /\ spaced =>
                /\ out.name.tag = "Err"
                /\ out.name.reason = IF tokens(s) >= 2 THEN "MultipleWords"
                                     ELSE "TrailingWhitespace"

\* a line of the document is a header alone on its line, in any letter case
\* of the keyword and at any depth
has_header_alone(lines) ==
    \E i \in 1..Len(lines) : lines[i].line = "header" /\ lines[i].tail = <<>>

\* no line of the document is a header, or each header has a word after the
\* keyword
has_no_header(lines) ==
    \A i \in 1..Len(lines) :
        lines[i].line = "header" => lines[i].tail = <<" ", "x">>

\* C20: a requirement section is recognised for a header line with the
\* keyword of the property in any letter case, at any depth of one or more
\* '#', alone on its line; a line with other text after the keyword is not
\* a marker. Both parsers are held to it, each with its keyword
C20_MarkerRecognised ==
    (pc = "parsed" /\ arg.class = "marker") =>
        LET recognised_requirement ==
                ~(out.requirements.tag = "Err"
                    /\ out.requirements.kind = "NoMarkerPattern")
            recognised_annotation == out.annotation.tag # "NoMarker"
        IN /\ has_header_alone(arg.lines) =>
                recognised_requirement /\ recognised_annotation
           /\ has_no_header(arg.lines) =>
                ~recognised_requirement /\ ~recognised_annotation

\* what is wrong with the text of a bullet, "" if nothing is: no colon, or
\* whitespace in the text before the first colon
malformed(chars) ==
    LET colon == position(chars, {":"}) IN
    IF colon = 0 THEN "NoColon"
    ELSE IF \E i \in 1..(colon - 1) : is_whitespace(chars[i])
    THEN "InvalidConditionName"
    ELSE ""

----------------------------------------------------------------------------
(* spans of doc comments: C21, C27 *)

\* C21: for the comments of an item, empty comment lines among them, the
\* range [0, len) of the whole doc string is mapped to the same set of spans
\* as span_all_comments gives, and no two neighbouring spans of the result
\* are adjacent in the source: those have been merged
C21_WholeRangeIsAllComments ==
    pc = "spanned" =>
        /\ { out.some[i] : i \in 1..Len(out.some) }
             = { out.all[i] : i \in 1..Len(out.all) }
        /\ \A i \in 1..(Len(out.some) - 1) : out.some[i].hi + 1 # out.some[i + 1].lo

\* C27: a bullet without ':' gives NoColon with the character range of the
\* bullet and the offset of the end of its first word; the place of the
\* suggested colon, range.start + offset, lies inside the doc string and is
\* mapped to a span, so that the diagnostic is built
C27_NoColonDiagBuilt ==
    (pc \in {"diag", "panic"} /\ arg.class = "bullets") =>
        LET r == out.requirements
            bad == { i \in 2..Len(arg.lines) : malformed(arg.lines[i].name) # "" }
            first == CHOOSE i \in bad : \A j \in bad : i <= j
            chars == arg.lines[first].name
            start == line_offset(arg.lines, first) + 2
            word_end == IF \E i \in 1..Len(chars) : is_whitespace(chars[i])
                        THEN (CHOOSE i \in 1..Len(chars) :
                                 /\ is_whitespace(chars[i])
                                 /\ \A j \in 1..(i - 1) : ~is_whitespace(chars[j])) - 1
                        ELSE Len(chars)
        IN /\ r.ranges = <<[lo |-> start, hi |-> start + Len(chars)]>>
           /\ r.at = word_end
           /\ start + r.at < Len(doc_text(arg.lines, "Unsafe"))
           /\ pc = "diag"
           /\ out.diag.tag = "Diag" /\ out.diag.suggestion # <<>>

----------------------------------------------------------------------------
(* the walker: C28, C29 *)

\* the spans recorded for the callee g in the record of f
spans_to(f, g) ==
    { reachable[f].calls_to[g][k] : k \in 1..Len(reachable[f].calls_to[g]) }

\* C28: when the walker takes a trait method without body from the worklist
\* it pushes nothing, records nothing and changes no record: the worklist
\* loses its front item and nothing else changes; such a method is never
\* recorded as reachable, and each call of it stays in the callee-to-spans
\* map of the calling function
C28_TraitMethodNotExpanded ==
    /\ [][(pc = "walk" /\ to_visit # <<>>
             /\ kind[Head(to_visit).reach] = "TraitRequired")
            => /\ to_visit' = Tail(to_visit)
               /\ reachable' = reachable
               /\ expanded' = expanded
               /\ pc' = pc]_vars
    /\ [](\A f \in DOMAIN reachable :
            /\ kind[f] # "TraitRequired"
            /\ \A i \in 1..Len(body[f]) :
                  (body[f][i] \in Funcs /\ kind[body[f][i]] = "TraitRequired")
                     => SpanOf(f, i) \in spans_to(f, body[f][i]))

\* main calls the trait method foo, which has no body, and then bar: the
\* walk has ended, foo is not recorded and bar is
C28_Witness ==
    /\ pc = "check"
    /\ entry = <<"main">>
    /\ kind["foo"] = "TraitRequired"
    /\ body["main"] = <<"foo", "bar">>
    /\ "foo" \notin DOMAIN reachable
    /\ "bar" \in DOMAIN reachable
    /\ SpanOf("main", 1) \in spans_to("main", "foo")

\* C29: the path recorded for a reachable function is a chain of calls from
\* an entry point: a function without path is an entry point; the first
\* caller of a path is an entry point; each caller is recorded as reachable
\* and calls the next function of the path, at last f, at the span that is
\* recorded with it and in its callee-to-spans map; and the path of the last
\* caller is the path of f without its last element
C29_PathsFormTree ==
    \A f \in DOMAIN reachable :
        LET through == reachable[f].through
            k == Len(through)
            callee(i) == IF i = k THEN f ELSE through[i + 1][1]
        IN /\ k = 0 => f \in EntrySet
           /\ k > 0 => through[1][1] \in EntrySet
           /\ \A i \in 1..k :
                LET c == through[i][1]
                    span == through[i][2]
                IN /\ c \in DOMAIN reachable
                   /\ span[1] = c
                   /\ span[2] \in 1..Len(body[c])
                   /\ body[c][span[2]] = callee(i)
                   /\ span \in spans_to(c, callee(i))
           /\ k > 0 =>
                reachable[through[k][1]].through = SubSeq(through, 1, k - 1)

\* main calls foo and foo calls bar: the path of bar goes through both
C29_Witness ==
    /\ pc = "check"
    /\ entry = <<"main">>
    /\ "bar" \in DOMAIN reachable
    /\ reachable["bar"].through
         = <<<<"main", SpanOf("main", 1)>>, <<"foo", SpanOf("foo", 1)>>>>

(* reachability/attr.rs and reachability/entry.rs *)

check_unsafe == <<"c", "h", "e", "c", "k", "_", "u", "n", "s", "a", "f", "e">>
check_panics == <<"c", "h", "e", "c", "k", "_", "p", "a", "n", "i", "c", "s">>
pub_ == <<"_", "p", "u", "b">>

SomeAttr(a) == [tag |-> "Some", attr |-> a, just_check_pub |-> FALSE]
SomeAttrPub(a, p) == [tag |-> "Some", attr |-> a, just_check_pub |-> p]
NoneAttr == [tag |-> "None", attr |-> "", just_check_pub |-> FALSE]
PanicAttr == [tag |-> "Panic", attr |-> "", just_check_pub |-> FALSE]

\* SniffToolAttr::try_from_string
try_from_string(string) ==
    IF string = check_unsafe THEN SomeAttr("CheckUnsafe")
    ELSE IF string = check_panics THEN SomeAttr("CheckPanics")
    ELSE NoneAttr

\* SniffToolAttr::try_from_string_pub. `string.len() - 4` is a subtraction of
\* usize: below four bytes it overflows (a panic with overflow checks, and
\* without them an end far past the string, which the slice refuses with a
\* panic as well).
try_from_string_pub(string) ==
    IF try_from_string(string).tag = "Some"
    THEN SomeAttrPub(try_from_string(string).attr, FALSE)
    ELSE IF Len(string) < 4 THEN PanicAttr
    ELSE LET pub_suffix == try_from_string(SubSeq(string, 1, Len(string) - 4))
         IN  IF /\ pub_suffix.tag = "Some"
                /\ SubSeq(string, Len(string) - 3, Len(string)) = pub_
             THEN SomeAttrPub(pub_suffix.attr, TRUE)
             ELSE NoneAttr

\* SniffToolAttr::property, compared with the property that is checked
matches_property(attr, P) ==
    \/ attr = "CheckUnsafe" /\ P = "SafetyProperty"
    \/ attr = "CheckPanics" /\ P = "PanicProperty"

\* get_sniff_tool_attrs with try_from_string_pub, on the names that follow
\* `sniff_tool::` in the attributes of the crate: the attributes that parse,
\* or a panic of the parser
krate_attrs_pub(names) ==
    IF \E i \in 1..Len(names) : try_from_string_pub(names[i]).tag = "Panic"
    THEN [tag |-> "Panic", attrs |-> <<>>]
    ELSE [tag |-> "Ok",
          attrs |-> SelectSeq([i \in 1..Len(names) |-> try_from_string_pub(names[i])],
                              LAMBDA a : a.tag = "Some")]

\* attrs_for: get_sniff_tool_attrs with try_from_string on the attributes of
\* an item
attrs_for(names) ==
    SelectSeq([i \in 1..Len(names) |-> try_from_string(names[i])],
              LAMBDA a : a.tag = "Some")

NoGlobal == [tag |-> "None", just_check_pub |-> FALSE]
Global(p) == [tag |-> "Some", just_check_pub |-> p]
GlobalPanic == [tag |-> "Panic", just_check_pub |-> FALSE]

\* find_global_annotation
find_global_annotation(names, P) ==
    LET parsed == krate_attrs_pub(names)
        property_annots == SelectSeq(parsed.attrs, LAMBDA a : matches_property(a.attr, P))
    IN  IF parsed.tag = "Panic" THEN GlobalPanic
        ELSE IF property_annots = <<>> THEN NoGlobal
        ELSE IF Len(property_annots) = 1 THEN Global(property_annots[1].just_check_pub)
        ELSE GlobalPanic

\* is_def_analyzeable
is_def_analyzeable(def_kind) == def_kind \in {"Fn", "AssocFn"}

\* all_local_fn_defs on the body owners of the crate
all_local_fn_defs(owners) ==
    { o \in DOMAIN owners : is_def_analyzeable(owners[o].def_kind) }

\* all_pub_local_fn_defs
all_pub_local_fn_defs(owners) ==
    { o \in all_local_fn_defs(owners) : owners[o].is_public }

\* is_directly_annotated
is_directly_annotated(item, P) ==
    \E i \in 1..Len(attrs_for(item.attrs)) :
        matches_property(attrs_for(item.attrs)[i].attr, P)

\* annotated_local_defs
annotated_local_defs(owners, P) ==
    { o \in DOMAIN owners : is_directly_annotated(owners[o], P) }

\* analysis_entry_points, as the set of its result
analysis_entry_points(names, owners, P) ==
    LET global_annotation == find_global_annotation(names, P)
    IN  IF global_annotation.tag = "Panic" THEN [tag |-> "Panic", defs |-> {}]
        ELSE IF global_annotation.tag = "Some" /\ ~global_annotation.just_check_pub
        THEN [tag |-> "Ok", defs |-> all_local_fn_defs(owners)]
        ELSE [tag |-> "Ok",
              defs |-> (IF global_annotation.tag = "Some"
                        THEN all_pub_local_fn_defs(owners) ELSE {})
                       \cup annotated_local_defs(owners, P)]

(* the crates and attribute names given to the entry points *)

MaxKrateAttrs == 2

Owners == {"foo", "bar"}

\* the names an attribute `sniff_tool::name` may have
AttrNames ==
    { check_unsafe, check_panics, check_unsafe \o pub_, check_panics \o pub_,
      <<>>, <<"f", "o", "o">>, pub_, <<"c", "h", "e", "c", "k">>,
      check_unsafe \o <<"_", "p", "u", "p">>, <<"x">> \o check_unsafe \o pub_,
      check_unsafe \o pub_ \o pub_ }

\* those of them that can be written in an attribute: an identifier is not
\* empty
AttrIdents == AttrNames \ {<<>>}

Properties == {"SafetyProperty", "PanicProperty"}

\* the attributes of one item: none, or one that opts it in for a property
ItemAttrs == {<<>>, <<check_unsafe>>, <<check_panics>>}

BodyOwner == [def_kind : {"Fn", "AssocFn", "Const"}, is_public : BOOLEAN, attrs : ItemAttrs]

\* the attributes of a crate that names no unknown attribute
KnownKrateAttrs ==
    SeqsUpTo({check_unsafe, check_panics, check_unsafe \o pub_, check_panics \o pub_},
             MaxKrateAttrs)

KrateInput(names, owners, P) ==
    [class |-> "krate", start |-> "analysis_entry_points", string |-> <<>>,
     krate_attrs |-> names, owners |-> owners, property |-> P]

AttrInput(string) ==
    [class |-> "attr", start |-> "try_from_string_pub", string |-> string,
     krate_attrs |-> <<>>, owners |-> <<>>, property |-> ""]

InitEntry ==
    /\ arg \in { KrateInput(names, owners, P) :
                   names \in KnownKrateAttrs \cup { <<n>> : n \in AttrIdents },
                   owners \in [Owners -> BodyOwner], P \in Properties }
          \cup { AttrInput(n) : n \in AttrNames }
    /\ pc = arg.start
    /\ out = [attr |-> [tag |-> "Unset"], entry_points |-> [tag |-> "Unset"]]
    /\ kind = [f \in Funcs |-> "Fn"]
    /\ body = [f \in Funcs |-> <<>>]
    /\ entry = <<>>
    /\ to_visit = <<>>
    /\ reachable = <<>>
    /\ expanded = [f \in Funcs |-> 0]
    /\ reqDoc = [d \in Defs |-> NoDoc]
    /\ external = [d \in Defs |-> NoDoc]
    /\ callChain = [f \in Funcs |-> <<>>]
    /\ axioms = [f \in Funcs |-> <<>>]
    /\ checked = {}
    /\ emitted = <<>>
    /\ res = "Ok"

\* a call of try_from_string_pub on one name
TryFromStringPub ==
    /\ pc = "try_from_string_pub"
    /\ out' = [out EXCEPT !.attr = try_from_string_pub(arg.string)]
    /\ pc' = IF try_from_string_pub(arg.string).tag = "Panic" THEN "panic" ELSE "attr"
    /\ UNCHANGED <<progVars, walkVars, checkVars, arg>>

\* a call of analysis_entry_points on one crate
AnalysisEntryPoints ==
    /\ pc = "analysis_entry_points"
    /\ out' = [out EXCEPT !.entry_points =
                 analysis_entry_points(arg.krate_attrs, arg.owners, arg.property)]
    /\ pc' = IF analysis_entry_points(arg.krate_attrs, arg.owners, arg.property).tag
                  = "Panic"
             THEN "panic" ELSE "entered"
    /\ UNCHANGED <<progVars, walkVars, checkVars, arg>>

NextEntry ==
    \/ TryFromStringPub
    \/ AnalysisEntryPoints

SpecEntry == InitEntry /\ [][NextEntry]_vars

(* the entry points: C22, C30 *)

\* what the name of a global attribute stands for
attr_named(string) ==
    IF string = check_unsafe THEN SomeAttrPub("CheckUnsafe", FALSE)
    ELSE IF string = check_panics THEN SomeAttrPub("CheckPanics", FALSE)
    ELSE IF string = check_unsafe \o pub_ THEN SomeAttrPub("CheckUnsafe", TRUE)
    ELSE IF string = check_panics \o pub_ THEN SomeAttrPub("CheckPanics", TRUE)
    ELSE NoneAttr

\* C30: try_from_string_pub returns on every string, of any length: the
\* attribute and false for the name of a known attribute, the attribute and
\* true for that name followed by "_pub", None for every other string.
C30_ParseTotal ==
    (arg.class = "attr" /\ pc # "try_from_string_pub")
        => /\ pc = "attr"
           /\ out.attr = attr_named(arg.string)

\* the same for the names of four characters and more
C30_ParseOfFourAndMore ==
    (arg.class = "attr" /\ pc # "try_from_string_pub" /\ Len(arg.string) >= 4)
        => /\ pc = "attr"
           /\ out.attr = attr_named(arg.string)

\* the global annotations of the crate for the checked property
globals_for(P) ==
    LET name == IF P = "SafetyProperty" THEN check_unsafe ELSE check_panics
    IN  { i \in 1..Len(arg.krate_attrs) :
            arg.krate_attrs[i] \in {name, name \o pub_} }

opted_in(o, P) ==
    LET name == IF P = "SafetyProperty" THEN check_unsafe ELSE check_panics
    IN  \E i \in 1..Len(arg.owners[o].attrs) : arg.owners[o].attrs[i] = name

local_functions == { o \in DOMAIN arg.owners : arg.owners[o].def_kind \in {"Fn", "AssocFn"} }

\* the entry points by the mode of a crate with one global annotation for
\* the property or none
EntryPointsByMode ==
    LET P == arg.property
        name == IF P = "SafetyProperty" THEN check_unsafe ELSE check_panics
        glob == globals_for(P)
        defs == out.entry_points.defs
    IN  /\ pc = "entered"
        /\ glob = {} => defs = { o \in local_functions : opted_in(o, P) }
        /\ (\E i \in glob : arg.krate_attrs[i] = name) => defs = local_functions
        /\ (\E i \in glob : arg.krate_attrs[i] = name \o pub_)
              => /\ \A o \in local_functions : arg.owners[o].is_public => o \in defs
                 /\ \A o \in defs \cap local_functions :
                       ~arg.owners[o].is_public => opted_in(o, P)

\* C22: the entry points are the functions opted in when the crate has no
\* global annotation, every local function under the global annotation for
\* all functions, and under the one for public functions every public local
\* function and no private function that is not opted in itself. Crates
\* with two global annotations for the property are left aside.
C22_EntryPointsByMode ==
    (arg.class = "krate" /\ pc # "analysis_entry_points"
        /\ Cardinality(globals_for(arg.property)) <= 1)
        => EntryPointsByMode

\* the same for crates whose attributes are all known and whose annotated
\* items are all functions
C22_OnFunctionsAndKnownAttrs ==
    (arg.class = "krate" /\ pc # "analysis_entry_points"
        /\ Cardinality(globals_for(arg.property)) <= 1
        /\ arg.krate_attrs \in KnownKrateAttrs
        /\ \A o \in DOMAIN arg.owners :
              arg.owners[o].attrs # <<>> => arg.owners[o].def_kind # "Const")
        => EntryPointsByMode

(* the file of external requirements: check/mod.rs and annotations/toml.rs *)

\* The file sniff_test_requirements.toml:
\*   Missing  no file at this path
\*   NotToml  a file that is no TOML document
\*   Table    a TOML document; `table` gives the value under each of its keys
\* The value under a key, by its shape:
\*   Requirements    a table with the one key `requirements`, a string
\*   ExtraKey        a table with a string `requirements` and a second key
\*   NoRequirements  a table without the key `requirements`
\*   NotString       a table whose `requirements` is no string
\*   NotTable        a value that is no table
MissingFile == [tag |-> "Missing", table |-> <<>>]
NotTomlFile == [tag |-> "NotToml", table |-> <<>>]
TableFile(table) == [tag |-> "Table", table |-> table]
TomlValue(form, text) == [form |-> form, text |-> text]

LoadOk(reqs) == [tag |-> "Ok", kind |-> "", reqs |-> reqs]
LoadErr(k) == [tag |-> "Err", kind |-> k, reqs |-> <<>>]

\* load_external_requirements: the requirement string of every key, or the
\* error of the file (its message, which names the key, is left out)
load_external_requirements(file) ==
    IF file.tag = "Missing" THEN LoadErr("NotFound")
    ELSE IF file.tag = "NotToml" THEN LoadErr("InvalidData")
    ELSE IF \E key \in DOMAIN file.table : file.table[key].form # "Requirements"
    THEN LoadErr("InvalidData")
    ELSE LoadOk([key \in DOMAIN file.table |-> file.table[key].text])

\* the map external_doc_strings, on every definition
doc_strings(reqs) == [d \in Defs |-> IF d \in DOMAIN reqs THEN reqs[d] ELSE NoDoc]

TomlOk(function_to_requirements) ==
    [tag |-> "Ok", error |-> "", function_to_requirements |-> function_to_requirements]
TomlErr(e) == [tag |-> "Err", error |-> e, function_to_requirements |-> <<>>]

\* TomlAnnotation::from_file. The first value of the table that fails ends
\* the call: with a value of a wrong schema and a string that does not parse
\* in one file the order of the table decides between the two errors.
from_file(file) ==
    LET wrong_schema(v) == v.form \in {"NotTable", "NoRequirements", "NotString"}
        unparsed(v) == parse_bullets_from_string(v.text).tag = "Err"
    IN  IF file.tag = "Missing" THEN TomlErr("Io")
        ELSE IF file.tag = "NotToml" THEN TomlErr("Toml")
        ELSE IF \E key \in DOMAIN file.table :
                    wrong_schema(file.table[key]) \/ unparsed(file.table[key])
        THEN IF \E key \in DOMAIN file.table : wrong_schema(file.table[key])
             THEN IF \E key \in DOMAIN file.table :
                        ~wrong_schema(file.table[key]) /\ unparsed(file.table[key])
                  THEN TomlErr("SchemaOrParse")
                  ELSE TomlErr("Schema")
             ELSE TomlErr("Parse")
        ELSE TomlOk([key \in DOMAIN file.table |->
                        parse_bullets_from_string(file.table[key].text).names])

(* the files given to the check *)

\* the functions a file may name: a local one and one of a dependency
OverrideKeys == {"foo", "ext"}

\* requirement strings: well formed, and three that do not parse
RequirementTexts ==
    { Doc("Bullets", <<"nn">>), Doc("NoColon", <<>>), Doc("Empty", <<>>),
      Doc("Plain", <<>>) }

TomlValues ==
    { TomlValue("Requirements", t) : t \in RequirementTexts }
      \cup { TomlValue(f, Doc("Bullets", <<"nn">>))
             : f \in {"ExtraKey", "NoRequirements", "NotString", "NotTable"} }

Files ==
    {MissingFile, NotTomlFile}
      \cup { TableFile(t) : t \in UNION { [K -> TomlValues] : K \in SUBSET OverrideKeys } }

\* the doc comment of main; the functions a file may name have none
InCodeDocs == { [d \in Defs |-> IF d = "main" THEN x ELSE NoDoc]
                : x \in { NoDoc, Doc("Bullets", <<"zz">>), Doc("NoColon", <<>>) } }

FileInput(class, file) ==
    [class |-> class, file |-> file,
     start |-> IF class = "check" THEN "load_external_requirements" ELSE "from_file"]

InitOverride ==
    /\ arg \in { FileInput(c, f) : c \in {"check", "toml"}, f \in Files }
    /\ pc = arg.start
    /\ reqDoc \in InCodeDocs
    /\ external = [d \in Defs |-> NoDoc]
    /\ out = [requirements |-> <<>>, toml |-> [tag |-> "Unset"]]
    /\ emitted = <<>>
    /\ kind = [f \in Funcs |-> "Fn"]
    /\ body = [f \in Funcs |-> <<>>]
    /\ entry = <<>>
    /\ to_visit = <<>>
    /\ reachable = <<>>
    /\ expanded = [f \in Funcs |-> 0]
    /\ callChain = [f \in Funcs |-> <<>>]
    /\ axioms = [f \in Funcs |-> <<>>]
    /\ checked = {}
    /\ res = "Ok"

\* check_properly_annotated, its first statement: the file is loaded; a
\* missing file and every other error give the empty map. The warning of the
\* other errors is built by struct_warn and dropped without emit(): nothing
\* is emitted, and the drop of a diagnostic that was not emitted panics in
\* the versions of rustc_errors that forbid it.
LoadExternalRequirements ==
    /\ pc = "load_external_requirements"
    /\ LET loaded == load_external_requirements(arg.file)
       IN  \/ /\ loaded.tag = "Ok"
              /\ external' = doc_strings(loaded.reqs)
              /\ pc' = "get_requirements"
           \/ /\ loaded.tag = "Err" /\ loaded.kind = "NotFound"
              /\ external' = doc_strings(<<>>)
              /\ pc' = "get_requirements"
           \/ /\ loaded.tag = "Err" /\ loaded.kind # "NotFound"
              /\ external' = doc_strings(<<>>)
              /\ pc' \in {"get_requirements", "panic"}
    /\ UNCHANGED <<kind, body, entry, reqDoc, callChain, axioms, walkVars,
                   checked, emitted, res, arg, out>>

\* the calls of get_requirements of the check, one for each definition, with
\* the warnings they emit
GetRequirements ==
    /\ pc = "get_requirements"
    /\ out' = [out EXCEPT !.requirements = [d \in Defs |-> get_requirements(d)]]
    /\ emitted' = emitted \o get_requirements("main").warn
                    \o get_requirements("foo").warn
                    \o get_requirements("bar").warn
                    \o get_requirements("ext").warn
    /\ pc' = "requirements"
    /\ UNCHANGED <<progVars, walkVars, checked, res, arg>>

\* a call of TomlAnnotation::from_file
FromFile ==
    /\ pc = "from_file"
    /\ out' = [out EXCEPT !.toml = from_file(arg.file)]
    /\ pc' = "toml"
    /\ UNCHANGED <<progVars, walkVars, checkVars, arg>>

NextOverride ==
    \/ LoadExternalRequirements
    \/ GetRequirements
    \/ FromFile

SpecOverride == InitOverride /\ [][NextOverride]_vars

(* the file of external requirements: C23, C24 *)

\* the entries of the file that are malformed: of a wrong schema, or with a
\* requirement string that does not parse
malformed_keys ==
    { key \in DOMAIN arg.file.table :
        \/ arg.file.table[key].form # "Requirements"
        \/ parse_bullets_from_string(arg.file.table[key].text).tag = "Err" }

warned(key) == \E k \in 1..Len(emitted) : emitted[k].kind = "warning" /\ emitted[k].fn = key

\* the run on a file with one malformed entry got through, warned about the
\* entry, took its function as unannotated and the other entries as written
DegradedToWarning ==
    /\ pc # "panic"
    /\ pc = "requirements"
          => \A key \in DOMAIN arg.file.table :
               IF key \in malformed_keys
               THEN /\ warned(key)
                    /\ out.requirements[key].tag = "None"
               ELSE /\ out.requirements[key].tag = "Ok"
                    /\ out.requirements[key].val.names
                         = parse_bullets_from_string(arg.file.table[key].text).names

\* C23: a file with one malformed entry gives a warning and the function of
\* the entry is taken as unannotated; the other entries of the file are
\* applied and the run is not aborted.
C23_MalformedEntryDegrades ==
    (arg.class = "check" /\ arg.file.tag = "Table" /\ Cardinality(malformed_keys) = 1)
        => DegradedToWarning

\* the same for a file whose malformed entry has the right schema and a
\* requirement string that does not parse
C23_UnparsedTextDegrades ==
    (arg.class = "check" /\ arg.file.tag = "Table" /\ Cardinality(malformed_keys) = 1
        /\ \A key \in DOMAIN arg.file.table : arg.file.table[key].form = "Requirements")
        => DegradedToWarning

\* the check on a missing file goes on without external requirements, errors
\* or warnings: the requirements are those of the doc comments
MissingFileInCheck ==
    /\ pc # "panic"
    /\ pc # "load_external_requirements"
          => /\ external = [d \in Defs |-> NoDoc]
             /\ emitted = <<>>
    /\ pc = "requirements"
          => \A d \in Defs :
               /\ out.requirements[d].tag = try_parse(reqDoc[d]).tag
               /\ out.requirements[d].tag # "None"
                     => out.requirements[d].val = try_parse(reqDoc[d])

\* C24: a missing file is no error: the load gives the empty set of
\* overrides, from_file an empty TomlAnnotation, nothing is reported and the
\* check goes on with the annotations of the code.
C24_MissingFileIsNoOverrides ==
    arg.file.tag = "Missing"
        => /\ arg.class = "check" => MissingFileInCheck
           /\ (arg.class = "toml" /\ pc = "toml") => out.toml = TomlOk(<<>>)

\* the part of C24 on the check
C24_MissingFileInCheck ==
    (arg.file.tag = "Missing" /\ arg.class = "check") => MissingFileInCheck

(* the heuristic on the prose of a justification: C25 *)

\* the name of the condition, or a synonym of it, is in the text, both taken
\* in lower case
prose_covers(text, name) == buzzword_satisfied(to_lowercase(text), to_lowercase(name))

\* a bullet of the justification has the name of the condition
bullet_covers(name) ==
    \E b \in 1..Len(JustificationBullets.conditions) :
        JustificationBullets.conditions[b].name = name

\* C25: a justification with a bullet does not cover a condition that none
\* of its bullets names, wherever else the name stands in its text; the text
\* of a justification without bullets covers a condition by its name or a
\* synonym, whatever the case of the letters of the name and of the text.
C25_ProseHeuristicOnlyWithoutBullets ==
    (/\ out.verdict.tag \in {"Ok", "Err"}
     /\ arg.args.fine_grained
     /\ out.obligation.tag = "ConsiderConditions") =>
        IF JustificationBullets.tag = "Some"
        THEN (\E c \in 1..Len(out.obligation.conditions) :
                 ~bullet_covers(out.obligation.conditions[c].name))
                => out.verdict.tag = "Err"
        ELSE out.verdict.tag = "Ok" <=>
               \A c \in 1..Len(out.obligation.conditions) :
                  prose_covers(out.annotation.text, out.obligation.conditions[c].name)

\* the part of C25 on justifications without bullets and conditions whose
\* names are in lower case
C25_ProseOfLowerCaseNames ==
    (/\ out.verdict.tag \in {"Ok", "Err"}
     /\ arg.args.fine_grained
     /\ out.obligation.tag = "ConsiderConditions"
     /\ JustificationBullets.tag # "Some"
     /\ \A c \in 1..Len(out.obligation.conditions) :
           out.obligation.conditions[c].name
              = to_lowercase(out.obligation.conditions[c].name)) =>
        (out.verdict.tag = "Ok" <=>
           \A c \in 1..Len(out.obligation.conditions) :
              prose_covers(out.annotation.text, out.obligation.conditions[c].name))

\* the part of C25 on justifications without bullets
C25_ProseOfAnyCase ==
    (/\ out.verdict.tag \in {"Ok", "Err"}
     /\ arg.args.fine_grained
     /\ out.obligation.tag = "ConsiderConditions"
     /\ JustificationBullets.tag # "Some") =>
        (out.verdict.tag = "Ok" <=>
           \A c \in 1..Len(out.obligation.conditions) :
              prose_covers(out.annotation.text, out.obligation.conditions[c].name))

====
